---- MODULE Spec2Model ----
(***************************************************************************)
(* Model of the kronicle SDK: the resilient connector                      *)
(* (kronicle/connectors/abc_connector.py), its error taxonomy, the         *)
(* directory cache and the Kronicable type checker                         *)
(* (kronicle/models/kronicable_type.py, kronicable_sample.py).             *)
(*                                                                         *)
(* The connector is used sequentially: one public method runs at a time.   *)
(* A method that reaches the retry loop of _request stays at pc = "loop"   *)
(* between HTTP attempts; one RequestAttempt step is one iteration of the  *)
(* loop (the HTTP call, the handling of its response or failure, the       *)
(* sleep, and, on the iteration that ends the request, the rest of the     *)
(* calling method).                                                        *)
(***************************************************************************)
EXTENDS Integers, Sequences, FiniteSets, TLC

(***************************************************************************)
(* Bounds                                                                  *)
(***************************************************************************)
\* the largest retry budget a connector is given
MaxRetries == 2
\* the longest channel list the service returns
MaxDirLen == 1
\* the most consecutive directory reads between two invalidations
MaxReads == 2
\* the longest directory delete_all_channels goes through
MaxSweepLen == 2
\* the longest directory and the largest row count scanned for the maximum
MaxScanLen == 4
MaxRows == 3
\* the most fields a sample type declares, the most instances built of it
MaxFields == 2
MaxInstances == 2
\* the longest JSON array handed to _parse directly
MaxParseLen == 2
\* the most columns a sensor_schema names, the largest available_rows given
MaxSchemaLen == 2
MaxAvailable == 2
\* the longest directory scanned by name
MaxNameDirLen == 2
\* the longest list under a key of columns
MaxColLen == 3
\* the most channels threads sharing a connector create
MaxPosts == 2

(***************************************************************************)
(* Values                                                                  *)
(***************************************************************************)
\* Sensor identifiers (UUIDs), numbered; 0 is Python's None.
Ids == {1, 2}

NoneId == 0

\* available_rows of the channels the service reports
SvcRows == {0, 1}

RECURSIVE SeqsUpTo(_, _)
SeqsUpTo(S, n) ==
    IF n = 0 THEN {<<>>}
    ELSE LET shorter == SeqsUpTo(S, n - 1)
         IN  shorter \cup {Append(s, x) : s \in {t \in shorter : Len(t) = n - 1}, x \in S}

\* columns: None, something that is not a dict ("other"), or a dict from
\* column names to entries; an entry is a list, of which the length is kept,
\* or a value that is not a list. timeOk: DatetimeIndex accepts the values
\* under "time".
ColumnNames == {"a", "b", "time"}

ColumnEntries == [list : {TRUE}, len : 0..MaxColLen] \cup {[list |-> FALSE, len |-> 0]}

NoColumns == [k |-> "None", map |-> <<>>, timeOk |-> TRUE]

ColumnsArgs ==
    {NoColumns, [k |-> "other", map |-> <<>>, timeOk |-> TRUE]}
        \cup [k : {"dict"}, map : UNION {[K -> ColumnEntries] : K \in SUBSET ColumnNames},
              timeOk : BOOLEAN]

\* (variant: the lengths are not compared)
LengthsNone(columns) == {}

\* lengths = {len(v) for v in self.columns.values() if isinstance(v, list)}
Lengths(columns) == {columns[c].len : c \in {d \in DOMAIN columns : columns[d].list}}

\* What data_frame returns (lines 136-176): None, a DataFrame (its data
\* columns and its index), or the exception raised, with the lengths it names.
\* DataFrame(dict) raises ValueError for a non-empty dict without any list.
NoFrame == [exc |-> "none", what |-> "None", lengths |-> {}, data |-> {}, index |-> ""]

FrameError(e, what, lengths) ==
    [exc |-> e, what |-> what, lengths |-> lengths, data |-> {}, index |-> ""]

DataFrame(columns) ==
    IF columns.k = "None" THEN NoFrame
    ELSE IF columns.k # "dict" THEN FrameError("TypeError", "type", {})
    ELSE IF Cardinality(Lengths(columns.map)) > 1
         THEN FrameError("ValueError", "lengths", Lengths(columns.map))
    ELSE IF DOMAIN columns.map # {} /\ \A c \in DOMAIN columns.map : ~columns.map[c].list
         THEN FrameError("ValueError", "scalars", {})
    ELSE IF "time" \in DOMAIN columns.map
         THEN IF columns.timeOk
              THEN [exc |-> "none", what |-> "frame", lengths |-> {},
                    data |-> DOMAIN columns.map \ {"time"}, index |-> "time"]
              ELSE FrameError("ValueError", "time", {})
    ELSE [exc |-> "none", what |-> "frame", lengths |-> {},
          data |-> DOMAIN columns.map, index |-> "range"]

\* rows: None, or a list of dicts
RowsArgs == {"None", "list"}

\* sensor_name: None, or a string
NoName == "None"

Names == {"a", "b"}

\* A validated KroniclePayload, reduced to the fields the connector reads.
\* The channels of the answers below carry no name; those of the directories
\* scanned by name do (NamedChannels).
\* The channels of the answers below carry neither rows nor columns; those
\* fetched for their rows or columns do (DataChannels).
Payloads ==
    [sensor_id : Ids, available_rows : SvcRows, sensor_name : {NoName}, rows : {"None"},
     columns : {NoColumns}]

NamedChannels ==
    [sensor_id : Ids, available_rows : {0}, sensor_name : Names \cup {NoName}, rows : {"None"},
     columns : {NoColumns}]

\* KroniclePayload(): every field at its default
EmptyPayload ==
    [sensor_id |-> NoneId, available_rows |-> 0, sensor_name |-> NoName, rows |-> "None",
     columns |-> NoColumns]

\* A decoded JSON object: one that validates as a payload ("payload"), one
\* with a known field that fails validation, e.g. a sensor_schema label
\* outside the label set ("invalid"), and the structured error body of the
\* service ("error": status, error, message, path, method, request_id).
JsonObjects ==
    [k : {"payload"}, ch : Payloads]
        \cup [k : {"invalid", "error"}, ch : {EmptyPayload}]

NoObj == [k |-> "none", ch |-> EmptyPayload]

\* Response.content: nothing ("empty"), bytes that are not JSON ("text"), a
\* JSON scalar or null ("scalar"), a JSON object ("dict"), a JSON array of
\* objects ("list").
Bodies(maxLen) ==
    [t : {"empty", "text", "scalar"}, obj : {NoObj}, items : {<<>>}]
        \cup [t : {"dict"}, obj : JsonObjects, items : {<<>>}]
        \cup [t : {"list"}, obj : {NoObj},
              items : SeqsUpTo([k : {"payload"}, ch : Payloads]
                                   \cup {[k |-> "invalid", ch |-> EmptyPayload]}, maxLen)]

NoBody == [t |-> "empty", obj |-> NoObj, items |-> <<>>]

ErrorBody == [t |-> "dict", obj |-> [k |-> "error", ch |-> EmptyPayload], items |-> <<>>]

StatusCodes == {200, 404}

\* What one call of requests.get/post/put/patch/delete does: it raises
\* (connection refused, timeout, ...) or returns a Response.
Responses(maxLen) ==
    [raises : {TRUE}, status_code : {0}, body : {NoBody}]
        \cup [raises : {FALSE}, status_code : {c \in StatusCodes : c < 400},
              body : Bodies(maxLen)]
        \cup [raises : {FALSE}, status_code : {c \in StatusCodes : c >= 400},
              body : {ErrorBody, [t |-> "text", obj |-> NoObj, items |-> <<>>]}]

\* The JSON object {}.
EmptyObject == [k |-> "emptyobject", ch |-> EmptyPayload]

\* The objects of the health routes: {"status": "alive"}, {"status": "ready"}.
HealthObjects == [k : {"alive", "ready"}, ch : {EmptyPayload}]

\* What the service answers to the requests of the convenience API and of the
\* facades: nothing, text, JSON null, {}, a health object, a channel, [], or a
\* list of one channel.
ChannelObjects ==
    [k : {"payload"}, ch : {[EmptyPayload EXCEPT !.sensor_id = id] : id \in Ids}]

FacadeBodies ==
    [t : {"empty", "text", "scalar"}, obj : {NoObj}, items : {<<>>}]
        \cup [t : {"dict"}, obj : {EmptyObject} \cup HealthObjects \cup ChannelObjects,
              items : {<<>>}]
        \cup [t : {"list"}, obj : {NoObj}, items : {<<>>} \cup {<<o>> : o \in ChannelObjects}]

FacadeResponses ==
    [raises : {TRUE}, status_code : {0}, body : {NoBody}]
        \cup [raises : {FALSE}, status_code : {c \in StatusCodes : c < 400}, body : FacadeBodies]
        \cup [raises : {FALSE}, status_code : {c \in StatusCodes : c >= 400},
              body : {ErrorBody, [t |-> "text", obj |-> NoObj, items |-> <<>>]}]

\* What one attempt met, as the log keeps it: "raised" for a call that raised,
\* otherwise the shape of the body (the kind of object for a JSON object,
\* "emptylist" for [], "invalidlist" for a list with an object that does not
\* validate as a payload).
Shape(resp) ==
    IF resp.raises THEN "raised"
    ELSE IF resp.body.t = "dict" THEN resp.body.obj.k
    ELSE IF resp.body.t = "list" /\ resp.body.items = <<>> THEN "emptylist"
    ELSE IF resp.body.t = "list"
            /\ \E i \in DOMAIN resp.body.items : resp.body.items[i].k = "invalid"
         THEN "invalidlist"
    ELSE resp.body.t

\* no response: the HTTP call raised, or none was made
NoAnswer == [raises |-> TRUE, status_code |-> 0, body |-> NoBody]

\* Return values of _parse / _request
NoValue == [t |-> "none", p |-> EmptyPayload, l |-> <<>>, raw |-> NoBody]

PayloadValue(p) == [t |-> "payload", p |-> p, l |-> <<>>, raw |-> NoBody]

ListValue(l) == [t |-> "list", p |-> EmptyPayload, l |-> l, raw |-> NoBody]

RawValue(body) == [t |-> "raw", p |-> EmptyPayload, l |-> <<>>, raw |-> body]

\* get_channel_with_max_rows returns a pair: t = "pair" is (p.sensor_id,
\* p.available_rows), t = "nonepair" is (None, None).
PairValue(id, n) ==
    [t |-> "pair", p |-> [EmptyPayload EXCEPT !.sensor_id = id, !.available_rows = n],
     l |-> <<>>, raw |-> NoBody]

NonePair == [t |-> "nonepair", p |-> EmptyPayload, l |-> <<>>, raw |-> NoBody]

\* True and False, the results of is_alive and is_ready
BoolValue(b) ==
    [t |-> IF b THEN "True" ELSE "False", p |-> EmptyPayload, l |-> <<>>, raw |-> NoBody]

\* result.rows and result.columns of the payload p (None when the field is
\* None), str(result.rows) and str(result.columns), and the DataFrame that
\* result.data_frame builds
RowsValue(p) ==
    IF p.rows = "None" THEN NoValue ELSE [t |-> "rows", p |-> p, l |-> <<>>, raw |-> NoBody]

ColumnsValue(p) ==
    IF p.columns.k = "None" THEN NoValue
    ELSE [t |-> "columns", p |-> p, l |-> <<>>, raw |-> NoBody]

StrOfRows(p) == [t |-> "str(rows)", p |-> p, l |-> <<>>, raw |-> NoBody]

StrOfColumns(p) == [t |-> "str(columns)", p |-> p, l |-> <<>>, raw |-> NoBody]

FrameValue(p) == [t |-> "DataFrame", p |-> p, l |-> <<>>, raw |-> NoBody]

(***************************************************************************)
(* kronicle_errors.py, KroniclePayload.from_json, _parse                   *)
(***************************************************************************)
\* KronicleHTTPError.from_response builds KronicleHTTPErrorModel(**response.json()):
\* it returns only for a JSON object carrying the fields of the error model;
\* response.json() raises on an empty or non-JSON body, ** raises TypeError on
\* a JSON array or scalar, and the model raises ValidationError on an object
\* that lacks the required fields.
FromResponseReturns(resp) ==
    resp.body.t = "dict" /\ resp.body.obj.k = "error"

\* (variant: the payload is built without validation)
FromJsonNeverRaises(obj) == FALSE

\* KroniclePayload.from_json(obj) = model_validate(obj) raises on an object
\* with an invalid field; unknown keys are ignored, so the error object
\* validates to a payload with every field at its default.
FromJsonRaises(obj) == obj.k = "invalid"

FromJson(obj) == IF obj.k = "payload" THEN obj.ch ELSE EmptyPayload

\* The result of one evaluation: exc = "none" and a value, or the exception
\* raised.
Returned(v) == [exc |-> "none", value |-> v]

Raised(e) == [exc |-> e, value |-> NoValue]

\* _parse(response, strict). bool(response) is response.ok: False for a
\* status of 400 and above.
Parse(resp, strict) ==
    IF resp.status_code >= 400 \/ resp.body.t = "empty" THEN Raised("ResponseError")
    ELSE IF resp.body.t = "text" THEN Raised("ResponseError")
    ELSE IF ~strict THEN Returned(RawValue(resp.body))
    ELSE IF resp.body.t = "dict" THEN
        IF FromJsonRaises(resp.body.obj) THEN Raised("ResponseError")
        ELSE Returned(PayloadValue(FromJson(resp.body.obj)))
    ELSE IF resp.body.t = "list" THEN
        IF \E i \in 1..Len(resp.body.items) : FromJsonRaises(resp.body.items[i])
        THEN Raised("ResponseError")
        ELSE Returned(ListValue([i \in 1..Len(resp.body.items) |-> FromJson(resp.body.items[i])]))
    ELSE Raised("ResponseError")

\* (variant: every status from 200 on is an error)
HttpErrorStatusFrom200(code) == code >= 200

\* response.status_code >= 400 (line 113)
HttpErrorStatus(code) == code >= 400

\* The body of the try block of _request for one attempt: the HTTP call, the
\* status check and the parse. "Transport" is an exception raised by the HTTP
\* call itself, "Other" an exception raised while building the HTTPError.
TryAttempt(resp, strict) ==
    IF resp.raises THEN Raised("Transport")
    ELSE IF HttpErrorStatus(resp.status_code) THEN
        IF FromResponseReturns(resp) THEN Raised("HTTPError") ELSE Raised("Other")
    ELSE Parse(resp, strict)

\* (variant: an exception raised while the HTTPError is built is re-raised)
NotRetriedNorOther(exc) == exc \in {"ResponseError", "HTTPError", "Other"}

\* (variant: the except clause names KronicleHTTPError alone)
NotRetriedHttpOnly(exc) == exc = "HTTPError"

\* except (KronicleResponseError, KronicleHTTPError): re-raised, not retried
NotRetried(exc) == exc \in {"ResponseError", "HTTPError"}

(***************************************************************************)
(* Request bodies                                                          *)
(***************************************************************************)
\* The body argument of a verb: None, {}, a dict that validates, a dict that
\* does not, a KroniclePayload, or something else (a str, the empty str).
BodyArgs == {"None", "emptydict", "dict", "baddict", "payload", "str", "emptystr"}

\* (variant: the test is body is None, so that {} and "" pass)
TruthyUnlessNone(body) == body # "None"

\* Python truthiness of the body argument
Truthy(body) == body \in {"dict", "baddict", "payload", "str"}

\* (variant: a body of another type is passed on as it is)
PrepareBodyAnyType(body) == IF body = "baddict" THEN "ValidationError" ELSE "none"

\* Lines 100-107 of _request: the exception raised before the retry loop, or
\* "none".
PrepareBody(body) ==
    IF body = "None" THEN "none"
    ELSE IF body \in {"emptydict", "dict", "baddict"} THEN
        IF body = "baddict" THEN "ValidationError" ELSE "none"
    ELSE IF body = "payload" THEN "none"
    ELSE "TypeError"

(***************************************************************************)
(* Directory helpers                                                       *)
(***************************************************************************)
\* self._metadata_cache: the attribute is missing until first set ("unset"),
\* None after _invalidate_cache ("none"), or a list ("list").
NoAttr == [kind |-> "unset", list |-> <<>>]

\* (variant: _invalidate_cache leaves the attribute as it is)
InvalidateCacheKeeps(c) == c

InvalidateCache(c) == [kind |-> "none", list |-> <<>>]

Cached(l) == [kind |-> "list", list |-> l]

\* (variant: all_channels tests the truth of the cached list, so that an
\* empty list counts as no cache)
CacheHitNonEmpty(c) == c.kind = "list" /\ c.list # <<>>

\* the negation of the test of all_channels:
\* not hasattr(self, "_metadata_cache") or self._metadata_cache is None
CacheHit(c) == c.kind = "list"

\* (variant: the comparison is not strict)
ExceedsOrEquals(rows, max) == rows >= max

\* the comparison of get_channel_with_max_rows
Exceeds(rows, max) == rows > max

\* the scan of get_channel_with_max_rows over channels[i..]: the state
\* (max_available_rows, channel_id) after the loop
RECURSIVE ScanMax(_, _, _, _)
ScanMax(channels, i, max, id) ==
    IF i > Len(channels) THEN [max |-> max, id |-> id]
    ELSE IF Exceeds(channels[i].available_rows, max)
         THEN ScanMax(channels, i + 1, channels[i].available_rows, channels[i].sensor_id)
         ELSE ScanMax(channels, i + 1, max, id)

GetChannelWithMaxRows(channels) ==
    LET s == ScanMax(channels, 1, 0, NoneId)
    IN  IF s.max > 0 THEN PairValue(s.id, s.max) ELSE NonePair

\* (variant: the loop does not return at the first match, and the last one
\* is returned)
RECURSIVE LastNamed(_, _, _)
LastNamed(channels, i, sensor_name) ==
    IF i > Len(channels) THEN NoValue
    ELSE LET later == LastNamed(channels, i + 1, sensor_name)
         IN  IF later # NoValue THEN later
             ELSE IF channels[i].sensor_name = sensor_name THEN PayloadValue(channels[i])
             ELSE NoValue

\* the loop of get_channel_by_sensor_name over channels[i..]: the first
\* channel whose sensor_name == sensor_name, or None
RECURSIVE FirstNamed(_, _, _)
FirstNamed(channels, i, sensor_name) ==
    IF i > Len(channels) THEN NoValue
    ELSE IF channels[i].sensor_name = sensor_name THEN PayloadValue(channels[i])
    ELSE FirstNamed(channels, i + 1, sensor_name)

\* What a method that reads all_channels makes of the directory.
DirectoryResult(op, arg, channels) ==
    IF op \in {"all_channels", "delete_all_channels"} THEN ListValue(channels)
    ELSE IF op = "get_channel_by_sensor_name" THEN FirstNamed(channels, 1, arg)
    ELSE GetChannelWithMaxRows(channels)

(***************************************************************************)
(* Kronicable types (kronicable_type.py)                                   *)
(***************************************************************************)
\* The classes an annotation is built from. IsoDateTime is the SDK's subclass
\* of datetime, Model a pydantic BaseModel subclass, MyStr, MyInt and
\* OrderedDict subclasses of str, int and dict, bytes a class outside the
\* primitives.
Classes == {"str", "int", "float", "bool", "datetime", "IsoDateTime", "dict", "list",
            "NoneType", "bytes", "BaseModel", "Model", "MyStr", "MyInt", "OrderedDict"}

\* the direct base class; "object" where the base is object
Base(c) ==
    CASE c = "bool" -> "int"
      [] c = "IsoDateTime" -> "datetime"
      [] c = "Model" -> "BaseModel"
      [] c = "MyStr" -> "str"
      [] c = "MyInt" -> "int"
      [] c = "OrderedDict" -> "dict"
      [] OTHER -> "object"

\* issubclass(c, d) for classes c, d
RECURSIVE IsSubclass(_, _)
IsSubclass(c, d) ==
    IF c = d THEN TRUE
    ELSE IF c = "object" THEN FALSE
    ELSE IsSubclass(Base(c), d)

\* COL_TO_PY_TYPE, in the order of the dict: <<label, class>>
COL_TO_PY_TYPE ==
    << <<"str", "str">>, <<"int", "int">>, <<"float", "float">>, <<"bool", "bool">>,
       <<"datetime", "IsoDateTime">>, <<"dict", "dict">>, <<"list", "list">> >>

STR_TYPES == {COL_TO_PY_TYPE[i][1] : i \in DOMAIN COL_TO_PY_TYPE}

PRIMITIVE_TYPES == {COL_TO_PY_TYPE[i][2] : i \in DOMAIN COL_TO_PY_TYPE}

\* A type annotation: a class; a union X | Y | ... (o = "Union", the members in
\* args, None as the class NoneType); list[...] and dict[...] with their
\* parameters in args.
Cls(c) == [o |-> "class", c |-> c, args |-> <<>>]

Gen(o, args) == [o |-> o, c |-> "", args |-> args]

NoneAnn == Cls("NoneType")

\* issubclass(typ, classes) for an annotation that is a class
SubclassOfAny(typ, classes) == \E d \in classes : IsSubclass(typ.c, d)

\* isinstance(typ, type): a class is a type, a union or a parameterized
\* generic is not
IsType(typ) == typ.o = "class"

\* is_optional
IsOptional(ann) ==
    ann.o = "Union" /\ \E i \in DOMAIN ann.args : ann.args[i] = NoneAnn

\* the list built by inner_optional; inner_optional raises TypeError unless
\* it has exactly one element
NonNoneArgs(ann) == SelectSeq(ann.args, LAMBDA a : a # NoneAnn)

InnerOptionalRaises(ann) == Len(NonNoneArgs(ann)) # 1

InnerOptional(ann) == NonNoneArgs(ann)[1]

\* is_primitive; "True", "False", or "TypeError" when inner_optional raises
IsPrimitive(ann) ==
    IF IsOptional(ann) /\ InnerOptionalRaises(ann) THEN "TypeError"
    ELSE LET typ == IF IsOptional(ann) THEN InnerOptional(ann) ELSE ann
         IN  IF IsType(typ) /\ SubclassOfAny(typ, PRIMITIVE_TYPES) THEN "True" ELSE "False"

\* is_basemodel
IsBasemodel(ann) == IsType(ann) /\ IsSubclass(ann.c, "BaseModel")

\* is_valid_list
IsValidList(ann) ==
    /\ ann.o = "list"
    /\ Len(ann.args) = 1
    /\ IsType(ann.args[1])
    /\ (IsSubclass(ann.args[1].c, "BaseModel") \/ SubclassOfAny(ann.args[1], PRIMITIVE_TYPES))

\* (variant: the type of the keys is not tested)
IsValidDictAnyKey(ann) ==
    /\ ann.o = "dict"
    /\ Len(ann.args) = 2
    /\ IsType(ann.args[2])
    /\ (IsSubclass(ann.args[2].c, "BaseModel") \/ SubclassOfAny(ann.args[2], PRIMITIVE_TYPES))

\* is_valid_dict
IsValidDict(ann) ==
    /\ ann.o = "dict"
    /\ Len(ann.args) = 2
    /\ ann.args[1] = Cls("str")
    /\ IsType(ann.args[2])
    /\ (IsSubclass(ann.args[2].c, "BaseModel") \/ SubclassOfAny(ann.args[2], PRIMITIVE_TYPES))

\* is_valid; "True", "False", or "TypeError" when inner_optional raises
RECURSIVE IsValid(_)
IsValid(ann) ==
    IF IsOptional(ann) THEN
        IF InnerOptionalRaises(ann) THEN "TypeError" ELSE IsValid(InnerOptional(ann))
    ELSE IF IsPrimitive(ann) = "True" THEN "True"
    ELSE IF IsBasemodel(ann) THEN "True"
    ELSE IF IsValidList(ann) \/ IsValidDict(ann) THEN "True"
    ELSE "False"

\* the loop of to_kronicle_type over COL_TO_PY_TYPE.items() from entry i on:
\* the label of the first entry whose class typ is a subclass of, "" if none
RECURSIVE FirstLabel(_, _)
FirstLabel(typ, i) ==
    IF i > Len(COL_TO_PY_TYPE) THEN ""
    ELSE IF IsType(typ) /\ IsSubclass(typ.c, COL_TO_PY_TYPE[i][2]) THEN COL_TO_PY_TYPE[i][1]
    ELSE FirstLabel(typ, i + 1)

\* (variant: a BaseModel subclass is labelled "json")
ToKronicleTypeJson(ann) ==
    IF IsValid(ann) # "True" THEN "TypeError"
    ELSE LET typ == IF IsOptional(ann) THEN InnerOptional(ann) ELSE ann
         IN  IF FirstLabel(typ, 1) # "" THEN FirstLabel(typ, 1)
             ELSE IF typ.o = "dict" THEN "dict"
             ELSE IF typ.o = "list" THEN "list"
             ELSE IF IsType(typ) /\ IsSubclass(typ.c, "BaseModel") THEN "json"
             ELSE "str"

\* to_kronicle_type: the label, or "TypeError"
ToKronicleType(ann) ==
    IF IsValid(ann) # "True" THEN "TypeError"
    ELSE LET typ == IF IsOptional(ann) THEN InnerOptional(ann) ELSE ann
         IN  IF FirstLabel(typ, 1) # "" THEN FirstLabel(typ, 1)
             ELSE IF typ.o = "dict" THEN "dict"
             ELSE IF typ.o = "list" THEN "list"
             ELSE "str"

\* The annotations the checker is applied to.
ClassAnns == {Cls(c) : c \in Classes}

GenericAnns ==
    {Gen("list", <<a>>) : a \in ClassAnns}
        \cup {Gen("dict", <<k, v>>) : k \in {Cls("str"), Cls("int")}, v \in ClassAnns}
        \cup {Gen("list", <<Gen("list", <<Cls("int")>>)>>), Gen("list", <<Cls("int"), Cls("str")>>),
              Gen("dict", <<Cls("str"), Gen("list", <<Cls("Model")>>)>>)}

UnionMembers == {Cls("int"), Cls("str"), Cls("bool"), Cls("Model")}

UnionPairs == {m \in UnionMembers \X UnionMembers : m[1] # m[2]}

UnionAnns ==
    {Gen("Union", <<a, NoneAnn>>) : a \in (ClassAnns \ {NoneAnn}) \cup GenericAnns}
        \cup {Gen("Union", <<m[1], m[2]>>) : m \in UnionPairs}
        \cup {Gen("Union", <<m[1], m[2], NoneAnn>>) : m \in UnionPairs}

Annotations == ClassAnns \cup GenericAnns \cup UnionAnns

(***************************************************************************)
(* KroniclePayload (kronicle_payload.py)                                   *)
(***************************************************************************)
\* STR_TYPES of kronicle_payload.py (lines 11-20): the keys of the module's
\* own COL_TO_PY_TYPE
PayloadStrTypes == {"str", "int", "float", "bool", "datetime", "dict", "list"}

\* The input of a construction (KroniclePayload(**map), from_json(map),
\* from_str(json)), reduced to four entries. Column names are numbered.
SchemaKeys == 1..MaxSchemaLen

\* the values a sensor_schema gives its columns: the labels and one other
SchemaLabels == PayloadStrTypes \cup {"unknown_type"}

\* sensor_schema: absent (or null), or a map from column names to strings
SchemaArgs ==
    {[present |-> FALSE, map |-> <<>>]}
        \cup [present : {TRUE}, map : UNION {[K -> SchemaLabels] : K \in SUBSET SchemaKeys}]

\* op_details: absent, {}, a map without the key "available_rows" ("other"),
\* a map with "available_rows": null ("null"), a map with
\* "available_rows": v ("rows")
OpDetailsArgs ==
    [k : {"absent", "empty", "other", "null"}, v : {0}] \cup [k : {"rows"}, v : 0..MaxAvailable]

\* the entry available_rows of the input: not given, or an int
AvailableRowsArgs == {[given |-> FALSE, v |-> 0]} \cup [given : {TRUE}, v : 0..MaxAvailable]

\* sensor_id: absent, a UUID, or a string that is not one
PayloadInputs ==
    [sensor_id : {"absent", "uuid", "malformed"}, sensor_schema : SchemaArgs,
     op_details : OpDetailsArgs, available_rows : AvailableRowsArgs]

\* (variant: the validator accepts every label)
InvalidEntriesNone(schema) == {}

\* invalid = {k: v for k, v in schema.items() if v not in STR_TYPES}
InvalidEntries(schema) ==
    {<<k, schema[k]>> : k \in {c \in DOMAIN schema : schema[c] \notin PayloadStrTypes}}

\* _validate_schema: the entries its ValueError names, {} when it returns
ValidateSchema(arg) == IF ~arg.present THEN {} ELSE InvalidEntries(arg.map)

\* (variant: the validator adds the rows of op_details to the field)
PopulateAvailableRowsAdds(op, rows) == IF op.k = "rows" /\ op.v # 0 THEN rows + op.v ELSE rows

\* _populate_available_rows: op_details is truthy and its "available_rows" is
\* truthy
PopulateAvailableRows(op, rows) == IF op.k = "rows" /\ op.v # 0 THEN op.v ELSE rows

\* The construction: the field validators run for every field and their
\* failures are collected in one ValidationError; the "after" validator runs
\* when there is none.
Construct(in) ==
    LET named == ValidateSchema(in.sensor_schema)
        idError == in.sensor_id = "malformed"
    IN  IF named # {} \/ idError
        THEN [exc |-> "ValidationError", named |-> named, idError |-> idError,
              available_rows |-> 0]
        ELSE [exc |-> "none", named |-> {}, idError |-> FALSE,
              available_rows |-> PopulateAvailableRows(in.op_details,
                                    IF in.available_rows.given THEN in.available_rows.v ELSE 0)]

\* A JSON text handed to from_str, reduced to the same four entries. An
\* entry that is absent and one that is null validate alike; the UUID is
\* written in its canonical form ("uuid") or in another form that UUID()
\* accepts: upper case, without hyphens, with the urn:uuid: prefix
\* ("otherform").
JsonTexts ==
    [sensor_id : {"absent", "uuid", "otherform", "malformed"}, sensor_schema : SchemaArgs,
     op_details : OpDetailsArgs, available_rows : AvailableRowsArgs]

\* The payload from_str builds of a text that validates: sensor_id is None or
\* a UUID object, sensor_schema and op_details are kept as given (None when
\* absent), available_rows is what the "after" validator leaves.
FromStr(text) ==
    [sensor_id |-> IF text.sensor_id = "absent" THEN "None" ELSE "UUID",
     sensor_schema |-> text.sensor_schema,
     op_details |-> text.op_details,
     available_rows |-> Construct(text).available_rows]

\* model_dump_json writes every field: None as null, the UUID in its
\* canonical form, available_rows as the payload holds it.
ModelDumpJson(payload) ==
    [sensor_id |-> IF payload.sensor_id = "None" THEN "absent" ELSE "uuid",
     sensor_schema |-> payload.sensor_schema,
     op_details |-> payload.op_details,
     available_rows |-> [given |-> TRUE, v |-> payload.available_rows]]

(***************************************************************************)
(* State                                                                   *)
(***************************************************************************)
VARIABLES
    url,          \* self.url
    retries,      \* self._retries
    delay,        \* self._delay
    cache,        \* self._metadata_cache
    pc,           \* "idle": no method is running; "loop": inside the retry loop of _request
    call,         \* the method that is running, or that ran last
    attempts,     \* HTTP calls made by the current (last) _request
    delays,       \* sleep(self._delay) calls made by the current (last) _request
    last_exc,     \* last_exc of _request: the attempt whose exception it holds, 0 for None
    log,          \* what each attempt of the current (last) _request ended in
    outcome,      \* how the last method ended: its return value or its exception
    sinceRead,    \* mutating verbs called since the last read of all_channels: "none",
                  \* "rejected" (only calls that raised before _invalidate_cache),
                  \* "mutated" (a call got past its body check), "dropped" (such a
                  \* call was made while the cache held a list)
    stale,        \* the cache holds a list fetched before a mutating HTTP attempt
    runReads,     \* successful reads of all_channels since the cache was last empty
    runFetches,   \* requests issued by those reads
    runList,      \* the list the first of those reads returned
    runSame,      \* every one of those reads returned runList
    checkedAnn,   \* the annotation a KronicableTypeChecker was last built for
    validRes,     \* what is_valid() gave for it
    labelRes,     \* what to_kronicle_type() gave for it
    sampleState,  \* "none": no sample type yet; "defined": the class statement of a
                  \* KronicableSample subclass has run; "rejected": it raised
    sampleFields, \* the annotations of the fields the sample type declares
    instances,    \* instances of the sample type constructed so far
    sampleError,  \* the exception the last instantiation raised, or "none"
    parsed,       \* the last direct use of _parse: the response, strict, the result
    built,        \* the last KroniclePayload construction: the input, the result
    rowed,        \* the last to_row: the sample, include_fields, the result
    viewed,       \* the last data_frame: the columns of the payload, the result
    tripped,      \* the last round trip from_str, model_dump_json, from_str: the
                  \* text, the first payload, its JSON, the second payload
    schemed,      \* the last get_sensor_schema: the annotations of the fields and
                  \* of the computed fields of the sample type, the result, and
                  \* the construction of a payload with that schema
    threads,      \* threads sharing the connector: where each is in all_channels
                  \* or post, what its GET returned, what its method returned
    service,      \* the number of channels the service holds
    racedStore,   \* whether the list in the cache was stored by a fetch that ran
                  \* while another thread was in a mutating call
    sweep,        \* the loop of delete_all_channels: the list it iterates, how far
                  \* it is, and what it has done so far
    conns         \* connector instances used side by side: the _metadata_cache of
                  \* each, where it is in all_channels or in a mutating verb, and
                  \* what its method returned

connVars == <<url, retries, delay, cache, pc, call, attempts, delays, last_exc, log, outcome,
              sinceRead, stale, runReads, runFetches, runList, runSame>>

typeVars == <<checkedAnn, validRes, labelRes, sampleState, sampleFields, instances,
              sampleError>>

dataVars == <<parsed, built, rowed, viewed, tripped, schemed>>

threadVars == <<threads, service, racedStore>>

sweepVars == <<sweep>>

instVars == <<conns>>

vars == <<connVars, typeVars, dataVars, threadVars, sweepVars, instVars>>

VerbOps == {"get", "post", "put", "patch", "delete"}

\* the mutating verbs
MutatingVerbs == {"post", "put", "patch", "delete"}

\* (variant: post does not call _invalidate_cache)
InvalidatesButPost(verb) == verb \in {"put", "patch", "delete"}

\* (variant: every verb calls _invalidate_cache)
InvalidatesEveryVerb(verb) == TRUE

\* (variant: delete does not call _invalidate_cache)
InvalidatesButDelete(verb) == verb \in {"post", "put", "patch"}

\* the verbs whose method calls _invalidate_cache before _request
Invalidates(verb) == verb \in {"post", "put", "patch", "delete"}

\* the methods of KronicleWriter and KronicleSetup that check the identifier
\* of their body and then return what a verb returns
WriteOps == {"create_channel", "upsert_channel", "update_channel",
             "insert_rows_and_upsert_channel"}

\* the methods that read the all_channels property
ReadOps == {"all_channels", "get_channel_with_max_rows", "get_channel_by_sensor_name",
            "delete_all_channels"}

\* A method call: the method (op), the HTTP verb of the request it is in, the
\* strict flag and the body of that request, the identifier in its route or,
\* for a method that takes a channel as its body, the sensor_id of the body (id,
\* 0 where there is none or the identifier is None), its return_type
\* or sensor_name argument (arg); after, hit, hadCache, lookup and answer are
\* records of the past: sinceRead and the cache test when the call began, the
\* log entry of the answer that ended the lookup of a delete_channel, the
\* first POST of a clone_channel or that a health check received, the
\* response on which its last _request returned, and the number of its
\* requests that reached the retry loop (requests).
NoEntry == [status |-> 0, exc |-> "none", shape |-> "none"]

NoCall == [op |-> "none", verb |-> "none", strict |-> TRUE, body |-> "None",
           id |-> NoneId, arg |-> "",
           after |-> "none", hit |-> FALSE, hadCache |-> FALSE, lookup |-> NoEntry,
           answer |-> NoAnswer, requests |-> 0]

NoOutcome == [kind |-> "none", value |-> NoValue, cause |-> 0]

Return(v) == [kind |-> "return", value |-> v, cause |-> 0]

Raise(e, cause) == [kind |-> e, value |-> NoValue, cause |-> cause]

ConnInit(c) ==
    /\ url = "http://127.0.0.1:8000"
    /\ retries \in 1..MaxRetries
    /\ delay = 2
    /\ cache = c
    /\ pc = "idle"
    /\ call = NoCall
    /\ attempts = 0
    /\ delays = 0
    /\ last_exc = 0
    /\ log = <<>>
    /\ outcome = NoOutcome
    /\ sinceRead = "none"
    /\ stale = FALSE
    /\ runReads = 0
    /\ runFetches = 0
    /\ runList = <<>>
    /\ runSame = TRUE

NoParse == [resp |-> NoAnswer, strict |-> TRUE, res |-> Raised("none")]

NoInput == [sensor_id |-> "absent", sensor_schema |-> [present |-> FALSE, map |-> <<>>],
            op_details |-> [k |-> "absent", v |-> 0],
            available_rows |-> [given |-> FALSE, v |-> 0]]

NotBuilt == [done |-> FALSE, in |-> NoInput, res |-> Construct(NoInput)]

NotRowed == [done |-> FALSE, kinds |-> <<>>, values |-> <<>>, include |-> <<>>,
             res |-> [exc |-> "none", field |-> 0, keys |-> {}]]

NotViewed == [done |-> FALSE, columns |-> NoColumns, res |-> NoFrame]

NotTripped ==
    [done |-> FALSE, text |-> NoInput, exc |-> "none", first |-> FromStr(NoInput),
     json |-> NoInput, again |-> "none", second |-> FromStr(NoInput)]

NotSchemed ==
    [done |-> FALSE, fields |-> <<>>, computed |-> <<>>,
     res |-> [exc |-> "none", schema |-> <<>>], payload |-> Construct(NoInput)]

DataInit ==
    /\ parsed = NoParse
    /\ built = NotBuilt
    /\ rowed = NotRowed
    /\ viewed = NotViewed
    /\ tripped = NotTripped
    /\ schemed = NotSchemed

TypeInit ==
    /\ checkedAnn = NoneAnn
    /\ validRes = "none"
    /\ labelRes = "none"
    /\ sampleState = "none"
    /\ sampleFields = <<>>
    /\ instances = 0
    /\ sampleError = "none"

\* The threads that share one connector.
Threads == {1, 2}

\* A thread outside the connector: pc is "idle"; in all_channels it is at the
\* GET of get_all_channels ("get"), at the assignment of line 219 ("store") or
\* at the return of line 220 ("ret"); in post it is at the HTTP call ("post").
\* raced tells whether a mutating call of another thread has run during its
\* fetch: "before" when that call invalidated the cache after the fetch began,
\* "during" when the fetch began after the invalidation and before the end of
\* that call, "no" otherwise; at is the number of channels the service held
\* when the method of the thread returned.
IdleThread ==
    [pc |-> "idle", op |-> "none", fetched |-> <<>>, attempts |-> 0, requested |-> FALSE,
     raced |-> "no", out |-> NoOutcome, at |-> 0]

ThreadInit ==
    /\ threads = [t \in Threads |-> IdleThread]
    /\ service = 0
    /\ racedStore = "no"

\* No delete_all_channels is running. ids is the list of all_ids the for loop
\* iterates and i the number of its elements the loop has taken; dir is the
\* directory as all_ids read it, tried the identifiers delete_channel was
\* called with, in order, caught the number of exceptions the except clause
\* caught, and dropped whether a deletion has invalidated the cache.
NoSweep == [active |-> FALSE, ids |-> <<>>, i |-> 0, dir |-> <<>>, tried |-> <<>>,
            caught |-> 0, dropped |-> FALSE]

SweepInit == sweep = NoSweep

\* The connector instances of the program.
Instances == {1, 2}

\* A connector after __init__: the attribute _metadata_cache is missing and
\* no method runs (pc "idle"; "loop" inside the retry loop of a request).
\* requested tells whether the last method issued a request, at the number of
\* channels the service held when it returned.
NewConnector ==
    [cache |-> NoAttr, pc |-> "idle", op |-> "none", attempts |-> 0, requested |-> FALSE,
     out |-> NoOutcome, at |-> 0]

InstInit == conns = [n \in Instances |-> NewConnector]

\* __init__ sets url, _retries and _delay; _metadata_cache is not set.
Init == ConnInit(NoAttr) /\ TypeInit /\ DataInit /\ ThreadInit /\ SweepInit /\ InstInit

(***************************************************************************)
(* Bookkeeping of the reads of all_channels                                *)
(***************************************************************************)
RunReset ==
    /\ runReads' = 0
    /\ runFetches' = 0
    /\ runList' = <<>>
    /\ runSame' = TRUE

RunRead(l, fetched) ==
    /\ runReads' = runReads + 1
    /\ runFetches' = runFetches + (IF fetched THEN 1 ELSE 0)
    /\ runList' = IF runReads = 0 THEN l ELSE runList
    /\ runSame' = (runSame /\ (runReads = 0 \/ l = runList))

(***************************************************************************)
(* _request                                                                *)
(***************************************************************************)
NewCall(op, verb, strict, body, hit) ==
    [op |-> op, verb |-> verb, strict |-> strict, body |-> body,
     id |-> NoneId, arg |-> "",
     after |-> sinceRead, hit |-> hit, hadCache |-> CacheHit(cache), lookup |-> NoEntry,
     answer |-> NoAnswer, requests |-> 0]

\* A method that ends without reaching the retry loop.
EndsAtOnce(c, o) ==
    /\ call' = c
    /\ outcome' = o
    /\ pc' = "idle"
    /\ attempts' = 0
    /\ delays' = 0
    /\ last_exc' = 0
    /\ log' = <<>>

\* _request up to the first iteration of the loop (lines 96-110); the retry
\* budget is at least 1, so the loop is entered.
BeginRequest(c) ==
    IF PrepareBody(c.body) # "none"
    THEN EndsAtOnce(c, Raise(PrepareBody(c.body), 0))
    ELSE /\ call' = [c EXCEPT !.requests = c.requests + 1]
         /\ outcome' = NoOutcome
         /\ pc' = "loop"
         /\ attempts' = 0
         /\ delays' = 0
         /\ last_exc' = 0
         /\ log' = <<>>

\* (variant: no check of the result)
IsPayloadListUnchecked(v) == TRUE

\* _ensure_is_payload_list: _parse builds a list out of payloads only, so the
\* element test passes for every list it returns.
IsPayloadList(v) == v.t = "list"

\* not res, for a value _request returns: None and [] are falsy, a
\* KroniclePayload (a BaseModel, with neither __bool__ nor __len__) is truthy
Falsy(v) == v.t = "none" \/ (v.t = "list" /\ v.l = <<>>)

\* the values of the return_type parameter: the four the methods name, and
\* any other
ReturnTypes == {"str", "df", "dict", "list", "other"}

\* return result.data_frame: the view of the columns of the payload q, None
\* when it has no columns, or the exception data_frame raises
DataFrameOf(q) ==
    IF DataFrame(q.columns).exc # "none" THEN Raise(DataFrame(q.columns).exc, 0)
    ELSE IF DataFrame(q.columns).what = "None" THEN Return(NoValue)
    ELSE Return(FrameValue(q))

\* What get_channel (lines 227-229), get_rows_for_channel (264-272),
\* get_cols_for_channel (281-291) and the lookup of delete_channel
\* (kronicle_setup.py, 30-32) make of the value v their GET returned; the
\* DELETE of delete_channel returns what _request returns.
ChannelResult(c, v) ==
    IF c.op = "get_channel" THEN
        IF Falsy(v) THEN Return(NoValue)
        ELSE IF v.t = "payload" THEN Return(v)
        ELSE Raise("TypeError", 0)
    ELSE IF c.op = "get_rows_for_channel" THEN
        IF v.t # "payload" THEN Raise("TypeError", 0)
        ELSE IF c.arg = "str" THEN Return(StrOfRows(v.p))
        ELSE IF c.arg = "df" THEN DataFrameOf(v.p)
        ELSE IF c.arg \in {"list", "dict"} THEN Return(RowsValue(v.p))
        ELSE Raise("ValueError", 0)
    ELSE IF c.op = "get_cols_for_channel" THEN
        IF v.t # "payload" THEN Raise("AssertionError", 0)
        ELSE IF c.arg = "str" THEN Return(StrOfColumns(v.p))
        ELSE IF c.arg = "df" THEN DataFrameOf(v.p)
        ELSE IF c.arg \in {"dict", "list"} THEN Return(ColumnsValue(v.p))
        ELSE Raise("ValueError", 0)
    ELSE IF c.verb = "delete" THEN Return(v)
    ELSE IF Falsy(v) THEN Raise("OperationError", 0)
    ELSE Raise("TypeError", 0)

\* The rest of the calling method once _request has returned res or raised.
\* It gives the method's outcome and the cache it leaves.
Finish(c, res, cause) ==
    IF res.exc # "none" THEN [out |-> Raise(res.exc, cause), cache |-> cache]
    ELSE IF c.op \in VerbOps \cup WriteOps THEN [out |-> Return(res.value), cache |-> cache]
    ELSE IF c.op = "clone_channel" THEN [out |-> Return(NoValue), cache |-> cache]
    ELSE IF c.op \notin ReadOps THEN [out |-> ChannelResult(c, res.value), cache |-> cache]
    ELSE IF ~IsPayloadList(res.value) THEN [out |-> Raise("TypeError", 0), cache |-> cache]
    ELSE [out |-> Return(DirectoryResult(c.op, c.arg, res.value.l)),
          cache |-> Cached(res.value.l)]

\* The bookkeeping of a method that ends after a request.
EndOfRequest(op, fin) ==
    /\ outcome' = fin.out
    /\ cache' = fin.cache
    /\ pc' = "idle"
    /\ IF op \in ReadOps
       THEN IF fin.out.kind = "return"
            THEN RunRead(fin.cache.list, FALSE)
            ELSE RunReset
       ELSE UNCHANGED <<runReads, runFetches, runList, runSame>>

\* last_exc = exc (line 121): prev is the attempt held so far, n the attempt
\* that has just failed
NextLastExc(prev, n) == n

\* delete_channel, once get_channel has returned a channel: not channel is
\* False, and the method goes on to self.delete.
FoundChannel(c, res) ==
    c.op = "delete_channel" /\ c.verb = "get" /\ res.exc = "none" /\ res.value.t = "payload"

\* self.delete(route=f"channels/{channel.sensor_id}") of delete_channel, up to
\* the first iteration of the loop of its _request
ThenDelete(channel, entry) ==
    /\ call' = [call EXCEPT !.verb = "delete", !.id = channel.sensor_id, !.lookup = entry,
                             !.requests = call.requests + 1]
    /\ cache' = IF Invalidates("delete") THEN InvalidateCache(cache) ELSE cache
    /\ stale' = (stale /\ CacheHit(cache'))
    /\ RunReset
    /\ sinceRead' = IF CacheHit(cache) \/ sinceRead = "dropped" THEN "dropped" ELSE "mutated"
    /\ attempts' = 0
    /\ delays' = 0
    /\ last_exc' = 0
    /\ log' = <<>>
    /\ UNCHANGED <<pc, outcome>>

\* clone_channel with a falsy body, once its first self.post has returned:
\* the method goes on to the second self.post (kronicle_setup.py, 45-47).
PostsAgain(c, res) ==
    c.op = "clone_channel" /\ c.requests = 1 /\ ~Truthy(c.arg) /\ res.exc = "none"

\* self.post(route=f"channels/{id}/clone", body=body) after the first post of
\* clone_channel, up to the first iteration of the loop of its _request; the
\* body is None or {}, which _request prepares without an exception.
ThenPostAgain(entry) ==
    /\ call' = [call EXCEPT !.body = call.arg, !.lookup = entry,
                             !.requests = call.requests + 1]
    /\ cache' = IF Invalidates("post") THEN InvalidateCache(cache) ELSE cache
    /\ stale' = (stale /\ CacheHit(cache'))
    /\ RunReset
    /\ sinceRead' = IF CacheHit(cache) \/ sinceRead = "dropped" THEN "dropped" ELSE "mutated"
    /\ attempts' = 0
    /\ delays' = 0
    /\ last_exc' = 0
    /\ log' = <<>>
    /\ UNCHANGED <<pc, outcome>>

\* the record of a call whose request has ended
Looked(c, entry, resp, res) ==
    IF c.op = "delete_channel" /\ c.verb = "get" THEN [c EXCEPT !.lookup = entry]
    ELSE IF res.exc = "none" THEN [c EXCEPT !.answer = resp]
    ELSE c

\* One iteration of the retry loop (lines 110-124), together with what
\* follows the loop when this iteration was the last.
RequestAttempt(Resps) ==
    /\ pc = "loop"
    /\ \E resp \in Resps :
        LET res == TryAttempt(resp, call.strict)
            n == attempts + 1
            entry == [status |-> resp.status_code, exc |-> res.exc, shape |-> Shape(resp)]
        IN  IF FoundChannel(call, res)
            THEN ThenDelete(res.value.p, entry)
            ELSE IF PostsAgain(call, res)
            THEN ThenPostAgain(entry)
            ELSE /\ attempts' = n
                 /\ log' = Append(log, entry)
                 /\ IF res.exc = "none" \/ NotRetried(res.exc)
                    THEN /\ EndOfRequest(call.op, Finish(call, res, 0))
                         /\ call' = Looked(call, entry, resp, res)
                         /\ UNCHANGED <<delays, last_exc>>
                    ELSE /\ last_exc' = NextLastExc(last_exc, n)
                         /\ delays' = delays + 1
                         /\ IF n < retries
                            THEN UNCHANGED <<pc, call, outcome, cache, runReads, runFetches,
                                             runList, runSame>>
                            ELSE /\ EndOfRequest(call.op,
                                     Finish(call, Raised("ConnectionError"), last_exc'))
                                 /\ call' = Looked(call, entry, resp,
                                                   Raised("ConnectionError"))
                 /\ stale' = IF call.verb \in MutatingVerbs THEN (stale \/ CacheHit(cache))
                             ELSE (stale /\ cache' = cache)
                 /\ UNCHANGED sinceRead
    /\ UNCHANGED <<url, retries, delay, typeVars, dataVars, threadVars, sweepVars, instVars>>

(***************************************************************************)
(* HTTP verbs (lines 166-194)                                              *)
(***************************************************************************)
\* get, post and delete take any body the caller passes (get and delete pass
\* none); put and patch raise ValueError on a falsy body before anything else.
\* c is the record of the method that calls the verb: the verb itself, or a
\* method of KronicleWriter or KronicleSetup.
CallVerbAs(c, verb, needsBody) ==
    /\ pc = "idle"
    /\ IF needsBody /\ ~Truthy(c.body)
       THEN /\ EndsAtOnce(c, Raise("ValueError", 0))
            /\ sinceRead' = IF sinceRead = "none" THEN "rejected" ELSE sinceRead
            /\ UNCHANGED <<cache, stale, runReads, runFetches, runList, runSame>>
       ELSE /\ BeginRequest(c)
            /\ cache' = IF Invalidates(verb) THEN InvalidateCache(cache) ELSE cache
            /\ stale' = (stale /\ CacheHit(cache'))
            /\ IF verb \in MutatingVerbs
               THEN /\ RunReset
                    /\ sinceRead' = IF CacheHit(cache) \/ sinceRead = "dropped"
                                    THEN "dropped" ELSE "mutated"
               ELSE UNCHANGED <<runReads, runFetches, runList, runSame, sinceRead>>
    /\ UNCHANGED <<url, retries, delay, typeVars, dataVars, threadVars, sweepVars, instVars>>

CallVerb(verb, strict, body, needsBody) ==
    CallVerbAs(NewCall(verb, verb, strict, body, FALSE), verb, needsBody)

Get == \E strict \in BOOLEAN : CallVerb("get", strict, "None", FALSE)

Post == \E body \in BodyArgs : CallVerb("post", TRUE, body, FALSE)

Put == \E body \in BodyArgs : CallVerb("put", TRUE, body, TRUE)

Patch == \E body \in BodyArgs : CallVerb("patch", TRUE, body, TRUE)

Delete == CallVerb("delete", TRUE, "None", FALSE)

(***************************************************************************)
(* Convenience API (lines 211-253)                                         *)
(***************************************************************************)
\* A method that starts by reading the all_channels property: a cached list
\* is used as it is, otherwise get_all_channels issues GET channels.
ReadDirectory(op, arg) ==
    /\ pc = "idle"
    /\ runReads < MaxReads
    /\ IF CacheHit(cache)
       THEN /\ EndsAtOnce([NewCall(op, "get", TRUE, "None", TRUE) EXCEPT !.arg = arg],
                          Return(DirectoryResult(op, arg, cache.list)))
            /\ RunRead(cache.list, FALSE)
       ELSE /\ BeginRequest([NewCall(op, "get", TRUE, "None", FALSE) EXCEPT !.arg = arg])
            /\ runFetches' = runFetches + 1
            /\ UNCHANGED <<runReads, runList, runSame>>
    /\ sinceRead' = "none"
    /\ UNCHANGED <<url, retries, delay, cache, stale, typeVars, dataVars, threadVars, sweepVars, instVars>>

AllChannels == ReadDirectory("all_channels", "")

GetChannelWithMaxRowsCall == ReadDirectory("get_channel_with_max_rows", "")

GetChannelBySensorName ==
    \E sensor_name \in Names \cup {NoName} :
        ReadDirectory("get_channel_by_sensor_name", sensor_name)

\* A method that starts with a strict GET of a route of the channel id:
\* get_channel, get_rows_for_channel, get_cols_for_channel, and delete_channel
\* of KronicleSetup, which starts with get_channel.
GetRoute(op, id, arg) ==
    /\ pc = "idle"
    /\ BeginRequest([NewCall(op, "get", TRUE, "None", FALSE) EXCEPT !.id = id, !.arg = arg])
    /\ UNCHANGED <<cache, stale, sinceRead, runReads, runFetches, runList, runSame>>
    /\ UNCHANGED <<url, retries, delay, typeVars, dataVars, threadVars, sweepVars, instVars>>

GetChannel == \E id \in Ids : GetRoute("get_channel", id, "")

GetRowsForChannel ==
    \E id \in Ids, return_type \in ReturnTypes : GetRoute("get_rows_for_channel", id, return_type)

GetColsForChannel ==
    \E id \in Ids, return_type \in ReturnTypes : GetRoute("get_cols_for_channel", id, return_type)

DeleteChannel == \E id \in Ids : GetRoute("delete_channel", id, "")

\* is_alive and is_ready (lines 199-205): one requests.get outside _request,
\* so that what it raises reaches the caller, then _parse with strict=False
\* and the test of the "status" entry.
\* (variant: the value of "status" is not compared)
HasStatus(data, word) == data.t = "dict" /\ data.obj.k \in {"alive", "ready"}

\* isinstance(res, dict) and res.get("status") == word
StatusIs(data, word) == data.t = "dict" /\ data.obj.k = word

HealthCheck(op, word) ==
    /\ pc = "idle"
    /\ \E resp \in FacadeResponses :
        LET res == IF resp.raises THEN Raised("Transport") ELSE Parse(resp, FALSE)
            entry == [status |-> resp.status_code, exc |-> res.exc, shape |-> Shape(resp)]
        IN  EndsAtOnce([NewCall(op, "get", FALSE, "None", FALSE) EXCEPT !.lookup = entry],
                IF res.exc # "none" THEN Raise(res.exc, 0)
                ELSE Return(BoolValue(StatusIs(res.value.raw, word))))
    /\ UNCHANGED <<cache, stale, sinceRead, runReads, runFetches, runList, runSame>>
    /\ UNCHANGED <<url, retries, delay, typeVars, dataVars, threadVars, sweepVars, instVars>>

IsAlive == HealthCheck("is_alive", "alive")

IsReady == HealthCheck("is_ready", "ready")

(***************************************************************************)
(* KronicleWriter and KronicleSetup (kronicle_writer.py, kronicle_setup.py) *)
(***************************************************************************)
\* The body of a method that takes a channel: its kind, as for the verbs, and,
\* for a dict that validates or a KroniclePayload, its sensor_id (a UUID of
\* version 4, or None).
ChannelBodies ==
    [kind : {"dict", "payload"}, id : Ids \cup {NoneId}]
        \cup [kind : BodyArgs \ {"dict", "payload"}, id : {NoneId}]

\* (variant: a payload without sensor_id passes)
EnsurePayloadIdAnyId(body) ==
    IF body.kind \in {"payload", "dict", "emptydict"} THEN "none" ELSE "ValidationError"

\* _ensure_payload_id (lines 153-160): the exception raised, or "none".
\* KroniclePayload.from_json raises ValidationError on what is not a dict that
\* validates; {} validates to a payload without sensor_id.
EnsurePayloadId(body) ==
    IF body.kind \notin {"payload", "dict", "emptydict"} THEN "ValidationError"
    ELSE IF body.id = NoneId THEN "ValueError"
    ELSE "none"

\* create_channel, upsert_channel, update_channel (kronicle_setup.py, 17-27)
\* and insert_rows_and_upsert_channel (kronicle_writer.py, 24-27):
\* _ensure_payload_id(body), then the verb.
WriteChannel(op, verb, body) ==
    LET c == [NewCall(op, verb, TRUE, body.kind, FALSE) EXCEPT !.id = body.id]
    IN  IF EnsurePayloadId(body) # "none"
        THEN /\ pc = "idle"
             /\ EndsAtOnce(c, Raise(EnsurePayloadId(body), 0))
             /\ UNCHANGED <<cache, stale, sinceRead, runReads, runFetches, runList, runSame>>
             /\ UNCHANGED <<url, retries, delay, typeVars, dataVars, threadVars, sweepVars, instVars>>
        ELSE CallVerbAs(c, verb, verb \in {"put", "patch"})

CreateChannel == \E body \in ChannelBodies : WriteChannel("create_channel", "post", body)

UpsertChannel == \E body \in ChannelBodies : WriteChannel("upsert_channel", "put", body)

UpdateChannel == \E body \in ChannelBodies : WriteChannel("update_channel", "patch", body)

InsertRowsAndUpsertChannel ==
    \E body \in ChannelBodies : WriteChannel("insert_rows_and_upsert_channel", "post", body)

\* the bodies clone_channel is declared to take: a KroniclePayload, a dict,
\* or None
CloneBodies == {"None", "emptydict", "dict", "baddict", "payload"}

\* clone_channel (kronicle_setup.py, 44-47): with a falsy body a POST without
\* body first; then, in every case, the POST with the body. The call keeps
\* the body argument in arg and the body of the current request in body.
CloneChannel ==
    \E id \in Ids, body \in CloneBodies :
        CallVerbAs([NewCall("clone_channel", "post", TRUE,
                            IF Truthy(body) THEN body ELSE "None", FALSE)
                        EXCEPT !.id = id, !.arg = body],
                   "post", FALSE)

Attempt == RequestAttempt(Responses(MaxDirLen))

Next ==
    \/ Get
    \/ Post
    \/ Put
    \/ Patch
    \/ Delete
    \/ AllChannels
    \/ GetChannelWithMaxRowsCall
    \/ Attempt

Spec == Init /\ [][Next]_vars

(***************************************************************************)
(* The convenience API and delete_channel                                  *)
(***************************************************************************)
FacadeAttempt == RequestAttempt(FacadeResponses)

NextFacade ==
    \/ AllChannels
    \/ GetChannel
    \/ GetRowsForChannel
    \/ GetColsForChannel
    \/ DeleteChannel
    \/ IsAlive
    \/ IsReady
    \/ FacadeAttempt

SpecFacade == Init /\ [][NextFacade]_vars

(***************************************************************************)
(* Every operation of the connector                                        *)
(***************************************************************************)
\* One answer for each way an attempt can end: a transport failure, an empty
\* body, a health object, a channel, [], a list of one channel, and an HTTP
\* error.
FrameChannel == [k |-> "payload", ch |-> [EmptyPayload EXCEPT !.sensor_id = 1]]

FrameResponses ==
    [raises : {TRUE}, status_code : {0}, body : {NoBody}]
        \cup [raises : {FALSE}, status_code : {200},
              body : {NoBody,
                      [t |-> "dict", obj |-> [k |-> "alive", ch |-> EmptyPayload], items |-> <<>>],
                      [t |-> "dict", obj |-> FrameChannel, items |-> <<>>],
                      [t |-> "list", obj |-> NoObj, items |-> <<>>],
                      [t |-> "list", obj |-> NoObj, items |-> <<FrameChannel>>]}]
        \cup [raises : {FALSE}, status_code : {404}, body : {ErrorBody}]

FrameAttempt == RequestAttempt(FrameResponses)

NextFrame ==
    \/ Get
    \/ Post
    \/ Put
    \/ Patch
    \/ Delete
    \/ AllChannels
    \/ GetChannelWithMaxRowsCall
    \/ GetChannel
    \/ GetRowsForChannel
    \/ GetColsForChannel
    \/ DeleteChannel
    \/ IsAlive
    \/ IsReady
    \/ FrameAttempt

SpecFrame == Init /\ [][NextFrame]_vars

(***************************************************************************)
(* The requests of the verbs, every HTTP call returning or failing         *)
(***************************************************************************)
\* The answers of FrameResponses, and an HTTP error whose body is not the
\* error model.
RequestResponses ==
    FrameResponses \cup {[raises |-> FALSE, status_code |-> 404, body |-> NoBody]}

LiveAttempt == RequestAttempt(RequestResponses)

NextLive ==
    \/ Get
    \/ Post
    \/ Put
    \/ Patch
    \/ Delete
    \/ LiveAttempt

\* Each HTTP call returns or raises, so an iteration of the retry loop that
\* has begun is completed.
SpecLive == Init /\ [][NextLive]_vars /\ WF_vars(LiveAttempt)

(***************************************************************************)
(* The methods of the writer and of the setup connector                    *)
(***************************************************************************)
NextSetup ==
    \/ CreateChannel
    \/ UpsertChannel
    \/ UpdateChannel
    \/ InsertRowsAndUpsertChannel
    \/ AllChannels
    \/ FrameAttempt

SpecSetup == Init /\ [][NextSetup]_vars

NextClone ==
    \/ CloneChannel
    \/ AllChannels
    \/ FrameAttempt

SpecClone == Init /\ [][NextClone]_vars

(***************************************************************************)
(* delete_all_channels (kronicle_setup.py, lines 35-42)                    *)
(***************************************************************************)
\* The answers of the service: those of FrameResponses, and directories of up
\* to MaxSweepLen channels with different identifiers.
SweepDirectories ==
    {l \in SeqsUpTo(Ids, MaxSweepLen) : \A i, j \in DOMAIN l : l[i] = l[j] => i = j}

SweepResponses ==
    FrameResponses
        \cup [raises : {FALSE}, status_code : {200},
              body : {[t |-> "list", obj |-> NoObj,
                       items |-> [i \in DOMAIN l |->
                                     [k |-> "payload",
                                      ch |-> [EmptyPayload EXCEPT !.sensor_id = l[i]]]]] :
                      l \in SweepDirectories}]

SweepAttempt == RequestAttempt(SweepResponses)

\* all_ids (abc_connector.py, 222-225): a new list, built from all_channels
AllIds(channels) == [i \in DOMAIN channels |-> channels[i].sensor_id]

\* self.all_ids has returned and the for loop has not started
SweepPending ==
    pc = "idle" /\ ~sweep.active /\ call.op = "delete_all_channels"
        /\ outcome.kind = "return" /\ outcome.value.t = "list"

\* no delete_all_channels is running
NotSweeping == ~sweep.active /\ ~SweepPending

\* delete_all_channels up to the evaluation of self.all_ids (line 37), which
\* reads all_channels; an exception of that read is outside the try block
\* and ends the method.
DeleteAllChannels == NotSweeping /\ ReadDirectory("delete_all_channels", "")

\* (variant: the loop iterates the list held by the cache)
SweepMoreInCache(s, c) == CacheHit(c) /\ s.i < Len(c.list)

\* the for loop has another element: it iterates the list all_ids returned
SweepMore(s, c) == s.i < Len(s.ids)

\* One turn of the for loop (lines 37-42): the except clause for the
\* delete_channel that has just ended, then delete_channel for the next
\* identifier, up to the first iteration of the loop of its lookup request;
\* when the list is exhausted the method returns None.
SweepStep ==
    /\ pc = "idle"
    /\ SweepPending \/ sweep.active
    /\ LET s == IF SweepPending
                THEN [active |-> TRUE, ids |-> AllIds(outcome.value.l), i |-> 0,
                      dir |-> outcome.value.l, tried |-> <<>>, caught |-> 0,
                      dropped |-> FALSE]
                ELSE [sweep EXCEPT !.caught = IF outcome.kind = "return" THEN @ ELSE @ + 1,
                                   !.dropped = @ \/ call.verb = "delete"]
       IN  IF SweepMore(s, cache)
           THEN /\ BeginRequest([NewCall("delete_channel", "get", TRUE, "None", FALSE)
                                     EXCEPT !.id = s.ids[s.i + 1]])
                /\ sweep' = [s EXCEPT !.i = s.i + 1, !.tried = Append(s.tried, call'.id)]
           ELSE /\ EndsAtOnce(NewCall("delete_all_channels", "none", TRUE, "None", FALSE),
                              Return(NoValue))
                /\ sweep' = [s EXCEPT !.active = FALSE]
    /\ UNCHANGED <<cache, stale, sinceRead, runReads, runFetches, runList, runSame>>
    /\ UNCHANGED <<url, retries, delay, typeVars, dataVars, threadVars, instVars>>

NextSweep ==
    \/ DeleteAllChannels
    \/ SweepStep
    \/ SweepAttempt

SpecSweep == Init /\ [][NextSweep]_vars

(***************************************************************************)
(* get_channel_with_max_rows over longer directories                       *)
(***************************************************************************)
\* The directory whose i-th channel has identifier i and rows[i] available
\* rows.
Directory(rows) ==
    [i \in 1..Len(rows) |-> [EmptyPayload EXCEPT !.sensor_id = i, !.available_rows = rows[i]]]

\* The connector after a first read of all_channels that fetched the
\* directory l at the first attempt.
AfterFetch(l) ==
    /\ url = "http://127.0.0.1:8000"
    /\ retries \in 1..MaxRetries
    /\ delay = 2
    /\ cache = Cached(l)
    /\ pc = "idle"
    /\ call = [NoCall EXCEPT !.op = "all_channels", !.verb = "get", !.requests = 1,
                             !.answer = [raises |-> FALSE, status_code |-> 200,
                                         body |-> [t |-> "list", obj |-> NoObj,
                                                   items |-> [i \in 1..Len(l) |->
                                                       [k |-> "payload", ch |-> l[i]]]]]]
    /\ attempts = 1
    /\ delays = 0
    /\ last_exc = 0
    /\ log = <<[status |-> 200, exc |-> "none",
                shape |-> IF l = <<>> THEN "emptylist" ELSE "list"]>>
    /\ outcome = Return(ListValue(l))
    /\ sinceRead = "none"
    /\ stale = FALSE
    /\ runReads = 1
    /\ runFetches = 1
    /\ runList = l
    /\ runSame = TRUE
    /\ TypeInit
    /\ DataInit
    /\ ThreadInit
    /\ SweepInit
    /\ InstInit

InitMaxRows ==
    \/ Init
    \/ \E rows \in SeqsUpTo(0..MaxRows, MaxScanLen) : AfterFetch(Directory(rows))

NextMaxRows ==
    \/ GetChannelWithMaxRowsCall
    \/ Attempt

SpecMaxRows == InitMaxRows /\ [][NextMaxRows]_vars

(***************************************************************************)
(* Two threads sharing one connector                                       *)
(***************************************************************************)
\* The channels of the service: channel i was created by the i-th post.
ServiceDirectory(n) == [i \in 1..n |-> [EmptyPayload EXCEPT !.sensor_id = i]]

\* What the service answers to a thread: a transport failure, an HTTP error,
\* or, to GET channels, the channels it holds, and to POST the channel
\* created.
ThreadResponses(verb) ==
    {[raises |-> TRUE, status_code |-> 0, body |-> NoBody],
     [raises |-> FALSE, status_code |-> 404, body |-> ErrorBody],
     IF verb = "get"
     THEN [raises |-> FALSE, status_code |-> 200,
           body |-> [t |-> "list", obj |-> NoObj,
                     items |-> [i \in 1..service |->
                                   [k |-> "payload", ch |-> ServiceDirectory(service)[i]]]]]
     ELSE [raises |-> FALSE, status_code |-> 200,
           body |-> [t |-> "dict",
                     obj |-> [k |-> "payload",
                              ch |-> [EmptyPayload EXCEPT !.sensor_id = service + 1]],
                     items |-> <<>>]]}

Others(t) == Threads \ {t}

\* The test of line 218, by thread t.
ThreadAllChannels(t) ==
    /\ threads[t].pc = "idle"
    /\ threads' = [threads EXCEPT ![t] =
           IF CacheHit(cache)
           THEN [IdleThread EXCEPT !.pc = "ret", !.op = "all_channels"]
           ELSE [IdleThread EXCEPT !.pc = "get", !.op = "all_channels", !.requested = TRUE,
                                   !.raced = IF \E u \in Others(t) : threads[u].pc = "post"
                                             THEN "during" ELSE "no"]]
    /\ UNCHANGED <<connVars, typeVars, dataVars, sweepVars, instVars, service, racedStore>>

\* One iteration of the retry loop of a thread: the HTTP call and what
\* _request makes of it. A result that is returned is handed to then.
ThreadAttempt(t, verb, then(_)) ==
    \E resp \in ThreadResponses(verb) :
        LET res == TryAttempt(resp, TRUE)
            n == threads[t].attempts + 1
            th == [threads[t] EXCEPT !.attempts = n]
        IN  IF res.exc = "none" THEN then(res.value)
            ELSE IF NotRetried(res.exc)
                 THEN /\ threads' = [threads EXCEPT ![t] =
                                        [th EXCEPT !.pc = "idle", !.out = Raise(res.exc, 0)]]
                      /\ UNCHANGED service
            ELSE IF n < retries
                 THEN /\ threads' = [threads EXCEPT ![t] = th]
                      /\ UNCHANGED service
            ELSE /\ threads' = [threads EXCEPT ![t] =
                                   [th EXCEPT !.pc = "idle",
                                              !.out = Raise("ConnectionError", n)]]
                 /\ UNCHANGED service

\* GET channels by thread t inside get_all_channels: the list it returns is
\* held by the thread until line 219 assigns it.
ThreadGet(t) ==
    /\ threads[t].pc = "get"
    /\ ThreadAttempt(t, "get",
           LAMBDA v : /\ threads' = [threads EXCEPT ![t] =
                             [@ EXCEPT !.pc = "store", !.fetched = v.l,
                                       !.attempts = threads[t].attempts + 1]]
                      /\ UNCHANGED service)
    /\ UNCHANGED <<connVars, typeVars, dataVars, sweepVars, instVars, racedStore>>

\* self._metadata_cache = ... (line 219) by thread t
ThreadStore(t) ==
    /\ threads[t].pc = "store"
    /\ cache' = Cached(threads[t].fetched)
    /\ racedStore' = threads[t].raced
    /\ threads' = [threads EXCEPT ![t] = [@ EXCEPT !.pc = "ret"]]
    /\ UNCHANGED <<url, retries, delay, pc, call, attempts, delays, last_exc, log, outcome,
                   sinceRead, stale, runReads, runFetches, runList, runSame>>
    /\ UNCHANGED <<typeVars, dataVars, sweepVars, instVars, service>>

\* return self._metadata_cache (line 220) by thread t: the attribute is read
\* again, and is None when another thread has invalidated the cache since.
ThreadReturn(t) ==
    /\ threads[t].pc = "ret"
    /\ threads' = [threads EXCEPT ![t] =
           [@ EXCEPT !.pc = "idle", !.at = service,
                     !.out = Return(IF CacheHit(cache) THEN ListValue(cache.list)
                                    ELSE NoValue)]]
    /\ UNCHANGED <<connVars, typeVars, dataVars, sweepVars, instVars, service, racedStore>>

\* post by thread t up to its HTTP call: _invalidate_cache (line 174). A
\* thread that is fetching the directory has now met a mutating call.
ThreadPost(t) ==
    /\ threads[t].pc = "idle"
    /\ service + Cardinality({u \in Threads : threads[u].pc = "post"}) < MaxPosts
    /\ cache' = IF Invalidates("post") THEN InvalidateCache(cache) ELSE cache
    /\ threads' = [u \in Threads |->
           IF u = t THEN [IdleThread EXCEPT !.pc = "post", !.op = "post", !.requested = TRUE]
           ELSE IF threads[u].pc \in {"get", "store"} THEN [threads[u] EXCEPT !.raced = "before"]
           ELSE threads[u]]
    /\ UNCHANGED <<url, retries, delay, pc, call, attempts, delays, last_exc, log, outcome,
                   sinceRead, stale, runReads, runFetches, runList, runSame>>
    /\ UNCHANGED <<typeVars, dataVars, sweepVars, instVars, service, racedStore>>

\* The HTTP call of the post of thread t: on a status below 400 the service
\* has created the channel.
ThreadPostAttempt(t) ==
    /\ threads[t].pc = "post"
    /\ ThreadAttempt(t, "post",
           LAMBDA v : /\ threads' = [threads EXCEPT ![t] =
                             [@ EXCEPT !.pc = "idle", !.out = Return(v),
                                       !.attempts = threads[t].attempts + 1]]
                      /\ service' = service + 1)
    /\ UNCHANGED <<connVars, typeVars, dataVars, sweepVars, instVars, racedStore>>

NextThreads ==
    \E t \in Threads :
        \/ ThreadAllChannels(t)
        \/ ThreadGet(t)
        \/ ThreadStore(t)
        \/ ThreadReturn(t)
        \/ ThreadPost(t)
        \/ ThreadPostAttempt(t)

SpecThreads == Init /\ [][NextThreads]_vars

(***************************************************************************)
(* Several connector instances                                             *)
(***************************************************************************)
\* One method runs at a time: the program is a single thread.
AllIdle == \A n \in Instances : conns[n].pc = "idle"

\* (variant: _metadata_cache is an attribute of the class)
InvalidateCacheOfClass(cs, self) ==
    [n \in DOMAIN cs |-> [cs[n] EXCEPT !.cache = InvalidateCache(@)]]

\* self._metadata_cache = None (lines 126-127): the attribute of the instance
\* the method is called on
InvalidateCacheOf(cs, self) == [cs EXCEPT ![self].cache = InvalidateCache(@)]

\* conns[n].all_channels up to the test of line 218: a cached list is
\* returned, otherwise GET channels is issued.
InstAllChannels(n) ==
    /\ AllIdle
    /\ conns' = [conns EXCEPT ![n] =
           IF CacheHit(conns[n].cache)
           THEN [@ EXCEPT !.op = "all_channels", !.attempts = 0, !.requested = FALSE,
                          !.out = Return(ListValue(conns[n].cache.list)), !.at = service]
           ELSE [@ EXCEPT !.pc = "loop", !.op = "all_channels", !.attempts = 0,
                          !.requested = TRUE, !.out = NoOutcome]]
    /\ UNCHANGED <<connVars, typeVars, dataVars, threadVars, sweepVars>>

\* conns[n].post / put / patch / delete up to the retry loop: the cache of the
\* instance is invalidated (put and patch with a body that is not empty).
InstMutate(n) ==
    /\ AllIdle
    /\ \E verb \in MutatingVerbs :
        /\ verb = "post" => service < MaxPosts
        /\ conns' = [InvalidateCacheOf(conns, n) EXCEPT
                         ![n].pc = "loop", ![n].op = verb, ![n].attempts = 0,
                         ![n].requested = TRUE, ![n].out = NoOutcome]
    /\ UNCHANGED <<connVars, typeVars, dataVars, threadVars, sweepVars>>

\* the channels the service holds once verb has succeeded
ServiceAfter(verb) ==
    IF verb = "post" THEN service + 1
    ELSE IF verb = "delete" /\ service > 0 THEN service - 1
    ELSE service

\* One iteration of the retry loop of the request of instance n, together
\* with the end of its method: all_channels stores and returns the list.
InstAttempt(n) ==
    /\ conns[n].pc = "loop"
    /\ \E resp \in ThreadResponses(IF conns[n].op = "all_channels" THEN "get" ELSE "post") :
        LET res == TryAttempt(resp, TRUE)
            c == [conns[n] EXCEPT !.attempts = @ + 1]
        IN  IF res.exc = "none"
            THEN IF c.op = "all_channels"
                 THEN /\ conns' = [conns EXCEPT ![n] =
                             [c EXCEPT !.pc = "idle", !.cache = Cached(res.value.l),
                                       !.out = Return(res.value), !.at = service]]
                      /\ UNCHANGED service
                 ELSE /\ service' = ServiceAfter(c.op)
                      /\ conns' = [conns EXCEPT ![n] =
                             [c EXCEPT !.pc = "idle", !.out = Return(res.value),
                                       !.at = service']]
            ELSE /\ conns' = [conns EXCEPT ![n] =
                        IF NotRetried(res.exc)
                        THEN [c EXCEPT !.pc = "idle", !.out = Raise(res.exc, 0), !.at = service]
                        ELSE IF c.attempts < retries THEN c
                        ELSE [c EXCEPT !.pc = "idle", !.at = service,
                                       !.out = Raise("ConnectionError", c.attempts)]]
                 /\ UNCHANGED service
    /\ UNCHANGED <<connVars, typeVars, dataVars, sweepVars, threads, racedStore>>

NextInstances ==
    \E n \in Instances :
        \/ InstAllChannels(n)
        \/ InstMutate(n)
        \/ InstAttempt(n)

SpecInstances == Init /\ [][NextInstances]_vars

(***************************************************************************)
(* get_rows_for_channel and get_cols_for_channel                           *)
(***************************************************************************)
\* The channels fetched for their rows or columns: with or without rows,
\* without columns, with columns of one length (a "time" column among them),
\* with columns of two lengths.
DataColumns ==
    {NoColumns,
     [k |-> "dict", map |-> [c \in {"a", "time"} |-> [list |-> TRUE, len |-> 2]],
      timeOk |-> TRUE],
     [k |-> "dict", map |-> [c \in {"a", "b"} |-> [list |-> TRUE, len |-> IF c = "a" THEN 2 ELSE 3]],
      timeOk |-> TRUE]}

DataChannels ==
    {[EmptyPayload EXCEPT !.sensor_id = id, !.rows = rows, !.columns = columns] :
        id \in Ids, rows \in RowsArgs, columns \in DataColumns}

\* What the service answers to GET channels/{id}/rows and
\* channels/{id}/columns: a transport failure, a channel, [], or an HTTP error.
DataResponses ==
    [raises : {TRUE}, status_code : {0}, body : {NoBody}]
        \cup [raises : {FALSE}, status_code : {200},
              body : [t : {"dict"}, obj : [k : {"payload"}, ch : DataChannels], items : {<<>>}]
                         \cup {[t |-> "list", obj |-> NoObj, items |-> <<>>]}]
        \cup [raises : {FALSE}, status_code : {404}, body : {ErrorBody}]

DataAttempt == RequestAttempt(DataResponses)

NextData ==
    \/ GetRowsForChannel
    \/ GetColsForChannel
    \/ DataAttempt

SpecData == Init /\ [][NextData]_vars

(***************************************************************************)
(* get_channel_by_sensor_name                                              *)
(***************************************************************************)
\* What the service answers to GET channels and to DELETE: a transport
\* failure, a list of named channels, or an HTTP error.
NameResponses ==
    [raises : {TRUE}, status_code : {0}, body : {NoBody}]
        \cup [raises : {FALSE}, status_code : {200},
              body : [t : {"list"}, obj : {NoObj},
                      items : SeqsUpTo([k : {"payload"}, ch : NamedChannels], MaxNameDirLen)]]
        \cup [raises : {FALSE}, status_code : {404}, body : {ErrorBody}]

NameAttempt == RequestAttempt(NameResponses)

NextByName ==
    \/ GetChannelBySensorName
    \/ Delete
    \/ NameAttempt

SpecByName == Init /\ [][NextByName]_vars

(***************************************************************************)
(* _parse applied to one response                                          *)
(***************************************************************************)
\* the responses _parse is handed: any status, any body
ParseInputs == [raises : {FALSE}, status_code : StatusCodes, body : Bodies(MaxParseLen)]

ParseResponse ==
    /\ \E resp \in ParseInputs, strict \in BOOLEAN :
        parsed' = [resp |-> resp, strict |-> strict, res |-> Parse(resp, strict)]
    /\ UNCHANGED <<connVars, threadVars, sweepVars, instVars, typeVars, built, rowed, viewed, tripped, schemed>>

SpecParse == Init /\ [][ParseResponse]_vars

(***************************************************************************)
(* One payload construction                                                *)
(***************************************************************************)
BuildPayload ==
    /\ ~built.done
    /\ \E in \in PayloadInputs : built' = [done |-> TRUE, in |-> in, res |-> Construct(in)]
    /\ UNCHANGED <<connVars, threadVars, sweepVars, instVars, typeVars, parsed, rowed, viewed, tripped, schemed>>

SpecPayload == Init /\ [][BuildPayload]_vars

(***************************************************************************)
(* One round trip through JSON (kronicle_payload.py, lines 229-235)        *)
(***************************************************************************)
\* payload = from_str(text); json_str = payload.model_dump_json();
\* payload_from_str = from_str(json_str). A text that does not validate
\* raises at the first step.
RoundTrip ==
    /\ ~tripped.done
    /\ \E text \in JsonTexts :
        LET payload == FromStr(text)
            json_str == ModelDumpJson(payload)
        IN  tripped' =
                IF Construct(text).exc # "none"
                THEN [NotTripped EXCEPT !.done = TRUE, !.text = text,
                                        !.exc = Construct(text).exc]
                ELSE [done |-> TRUE, text |-> text, exc |-> "none", first |-> payload,
                      json |-> json_str, again |-> Construct(json_str).exc,
                      second |-> FromStr(json_str)]
    /\ UNCHANGED <<connVars, threadVars, sweepVars, instVars, typeVars, parsed, built, rowed, viewed, schemed>>

SpecTrip == Init /\ [][RoundTrip]_vars

(***************************************************************************)
(* The data_frame view of one payload                                      *)
(***************************************************************************)
ViewDataFrame ==
    /\ ~viewed.done
    /\ \E columns \in ColumnsArgs :
        viewed' = [done |-> TRUE, columns |-> columns, res |-> DataFrame(columns)]
    /\ UNCHANGED <<connVars, threadVars, sweepVars, instVars, typeVars, parsed, built, rowed, tripped, schemed>>

SpecView == Init /\ [][ViewDataFrame]_vars

(***************************************************************************)
(* The type checker applied to one annotation                              *)
(***************************************************************************)
\* KronicableTypeChecker(ann), then is_valid() and to_kronicle_type()
Classify ==
    /\ \E ann \in Annotations :
        /\ checkedAnn' = ann
        /\ validRes' = IsValid(ann)
        /\ labelRes' = ToKronicleType(ann)
    /\ UNCHANGED <<connVars, threadVars, sweepVars, instVars, dataVars, sampleState, sampleFields, instances, sampleError>>

SpecChecker == Init /\ [][Classify]_vars

(***************************************************************************)
(* Sample types (kronicable_sample.py)                                     *)
(***************************************************************************)
\* the annotations a sample type declares its fields with
SampleAnns ==
    {Cls("int"), Cls("IsoDateTime"), Cls("bytes"), Cls("Model"),
     Gen("Union", <<Cls("str"), NoneAnn>>),
     Gen("Union", <<Cls("int"), Cls("str")>>),
     Gen("Union", <<Cls("int"), Cls("str"), NoneAnn>>),
     Gen("list", <<Cls("Model")>>),
     Gen("dict", <<Cls("int"), Cls("Model")>>)}

\* _check_field_types over fields[i..]: "TypeError" at the first field whose
\* checker raises or is not valid, "none" when every field passes
RECURSIVE CheckFieldTypes(_, _)
CheckFieldTypes(fields, i) ==
    IF i > Len(fields) THEN "none"
    ELSE IF IsValid(fields[i]) # "True" THEN "TypeError"
    ELSE CheckFieldTypes(fields, i + 1)

\* What the class statement of a KronicableSample subclass runs of this
\* module: nothing. _check_field_types is a model_validator(mode="before"),
\* which runs when an instance is validated; the class body adds no hook that
\* runs when the subclass is created.
DefinitionRaises(fields) == FALSE

\* class X(KronicableSample): f1: ann1; f2: ann2; ...
DefineSampleType ==
    /\ sampleState = "none"
    /\ \E fields \in SeqsUpTo(SampleAnns, MaxFields) :
        /\ Len(fields) >= 1
        /\ sampleFields' = fields
        /\ sampleState' = IF DefinitionRaises(fields) THEN "rejected" ELSE "defined"
    /\ UNCHANGED <<connVars, threadVars, sweepVars, instVars, dataVars, checkedAnn, validRes, labelRes, instances, sampleError>>

\* X(...): the "before" validator runs first; an instance exists only when it
\* returns.
Instantiate ==
    /\ sampleState = "defined"
    /\ instances < MaxInstances
    /\ sampleError' = CheckFieldTypes(sampleFields, 1)
    /\ instances' = IF sampleError' = "none" THEN instances + 1 ELSE instances
    /\ UNCHANGED <<connVars, threadVars, sweepVars, instVars, dataVars, checkedAnn, validRes, labelRes, sampleState, sampleFields>>

NextSample ==
    \/ DefineSampleType
    \/ Instantiate

SpecSample == Init /\ [][NextSample]_vars

(***************************************************************************)
(* get_sensor_schema (kronicable_sample.py, lines 81-97)                   *)
(***************************************************************************)
\* the return types a sample type declares its computed fields with
ComputedAnns ==
    {Cls("bool"), Cls("Model"), Cls("bytes"),
     Gen("Union", <<Cls("str"), NoneAnn>>),
     Gen("Union", <<Cls("int"), Cls("str")>>),
     Gen("list", <<Cls("Model")>>)}

\* the labels of anns[i..], in order: schema[name] = kt.to_kronicle_type()
RECURSIVE LabelsFrom(_, _)
LabelsFrom(anns, i) ==
    IF i > Len(anns) THEN <<>>
    ELSE <<ToKronicleType(anns[i])>> \o LabelsFrom(anns, i + 1)

\* get_sensor_schema of an instance of a sample type with these fields and
\* computed fields: the labels of the fields, then those of the computed
\* fields; the TypeError of to_kronicle_type is not caught. Names are
\* numbered in that order.
GetSensorSchemaOf(fields, computed) ==
    LET labels == LabelsFrom(fields, 1) \o LabelsFrom(computed, 1)
    IN  IF \E i \in DOMAIN labels : labels[i] = "TypeError"
        THEN [exc |-> "TypeError", schema |-> <<>>]
        ELSE [exc |-> "none", schema |-> labels]

\* the input KroniclePayload(sensor_schema=schema)
SchemaInput(schema) ==
    [sensor_id |-> "absent", sensor_schema |-> [present |-> TRUE, map |-> schema],
     op_details |-> [k |-> "absent", v |-> 0], available_rows |-> [given |-> FALSE, v |-> 0]]

\* sample = X(...); schema = sample.get_sensor_schema();
\* KroniclePayload(sensor_schema=schema). The instance exists, so
\* _check_field_types has passed for the fields.
GetSensorSchema ==
    /\ ~schemed.done
    /\ \E fields \in SeqsUpTo(SampleAnns, MaxFields), computed \in SeqsUpTo(ComputedAnns, 1) :
        /\ Len(fields) >= 1
        /\ CheckFieldTypes(fields, 1) = "none"
        /\ LET res == GetSensorSchemaOf(fields, computed)
           IN  schemed' = [done |-> TRUE, fields |-> fields, computed |-> computed, res |-> res,
                           payload |-> IF res.exc = "none"
                                       THEN Construct(SchemaInput(res.schema))
                                       ELSE Construct(NoInput)]
    /\ UNCHANGED <<connVars, threadVars, sweepVars, instVars, typeVars, parsed, built, rowed, viewed, tripped>>

SpecSchema == Init /\ [][GetSensorSchema]_vars

(***************************************************************************)
(* to_row (kronicable_sample.py, lines 45-76)                              *)
(***************************************************************************)
\* A sample type names its fields 1..n; a field is declared with a type
\* ("required": x: int), declared nullable ("optional": x: int | None = None),
\* or is a computed_field property ("computed").
FieldKinds == {"required", "optional", "computed"}

\* model_fields[name].annotation of a declared field
AnnotationOf(kind) ==
    IF kind = "optional" THEN Gen("Union", <<Cls("int"), NoneAnn>>) ELSE Cls("int")

\* self.__dict__.keys(): the declared fields, in the order of declaration; a
\* computed field is a property of the class, with no entry
RECURSIVE DictKeys(_, _)
DictKeys(kinds, i) ==
    IF i > Len(kinds) THEN <<>>
    ELSE IF kinds[i] = "computed" THEN DictKeys(kinds, i + 1)
    ELSE <<i>> \o DictKeys(kinds, i + 1)

\* The loop of to_row over names[i..], row the keys set so far: the keys of
\* the row returned, or the exception raised and the field it is about.
\* model_fields holds the declared fields only, so that line 56 raises
\* KeyError for a computed field.
RECURSIVE ToRowFrom(_, _, _, _, _)
ToRowFrom(names, i, kinds, values, row) ==
    IF i > Len(names) THEN [exc |-> "none", field |-> 0, keys |-> row]
    ELSE LET name == names[i]
         IN  IF kinds[name] = "computed" THEN [exc |-> "KeyError", field |-> name, keys |-> {}]
             ELSE IF values[name] = "None" THEN
                 IF IsOptional(AnnotationOf(kinds[name]))
                 THEN ToRowFrom(names, i + 1, kinds, values, row)
                 ELSE [exc |-> "ValueError", field |-> name, keys |-> {}]
             ELSE ToRowFrom(names, i + 1, kinds, values, row \cup {name})

\* to_row(include_fields): an empty or absent include_fields (<<>>) stands for
\* the keys of __dict__
ToRow(kinds, values, include) ==
    ToRowFrom(IF include # <<>> THEN include ELSE DictKeys(kinds, 1), 1, kinds, values, {})

\* The samples: the kinds of the fields and their values, None or a value;
\* the property of a computed field returns a value.
Samples ==
    {sm \in UNION {[kinds : [1..n -> FieldKinds], values : [1..n -> {"None", "value"}]] :
                      n \in 1..MaxFields} :
        \A i \in DOMAIN sm.kinds : sm.kinds[i] = "computed" => sm.values[i] = "value"}

SerializeRow ==
    /\ ~rowed.done
    /\ \E sm \in Samples :
        \E include \in SeqsUpTo(DOMAIN sm.kinds, Len(sm.kinds)) :
            rowed' = [done |-> TRUE, kinds |-> sm.kinds, values |-> sm.values,
                      include |-> include, res |-> ToRow(sm.kinds, sm.values, include)]
    /\ UNCHANGED <<connVars, threadVars, sweepVars, instVars, typeVars, parsed, built, viewed, tripped, schemed>>

SpecRow == Init /\ [][SerializeRow]_vars

(***************************************************************************)
(* Claims                                                                  *)
(***************************************************************************)
\* the last _request has ended, after at least one attempt
RequestEnded == pc = "idle" /\ Len(log) >= 1

AllTransport == \A i \in DOMAIN log : log[i].exc = "Transport"

\* C1: a request in which every attempt raises a transport failure makes
\* exactly N attempts and exactly N-1 delays (none after the last attempt),
\* N the retry budget, and then raises ConnectionError.
C1_TransportFailuresExhaustBudget ==
    (RequestEnded /\ AllTransport)
        => (attempts = retries /\ delays = retries - 1 /\ outcome.kind = "ConnectionError")

\* C2: a response with status >= 400 makes the request raise HTTPError on the
\* attempt that received it: no attempt follows it, and when it is the first
\* attempt the request made 1 attempt and no delay.
C2_HttpErrorStatusEndsRequest ==
    \A i \in DOMAIN log :
        log[i].status >= 400
            => /\ i = Len(log)
               /\ pc = "idle"
               /\ outcome.kind = "HTTPError"
               /\ (i = 1 => (attempts = 1 /\ delays = 0))

\* C3: a response error on any attempt is raised to the caller as
\* ResponseError on that attempt: no attempt and no delay follow it (the only
\* delays are those after the failed attempts before it).
C3_ResponseErrorEndsRequest ==
    \A i \in DOMAIN log :
        log[i].exc = "ResponseError"
            => /\ i = Len(log)
               /\ attempts = i
               /\ pc = "idle"
               /\ outcome.kind = "ResponseError"
               /\ delays = i - 1

C3_Witness ==
    /\ RequestEnded
    /\ Len(log) >= 2
    /\ log[Len(log)].exc = "ResponseError"
    /\ outcome.kind = "ResponseError"

\* C4 as stated: after any call of a mutating verb, successful or not, the
\* next read of all_channels issues a new request.
C4_ReadAfterAnyMutatingCallFetches ==
    (call.op \in ReadOps /\ call.after # "none") => ~call.hit

\* C4 as amended: after a call of post or delete, or of put or patch with a
\* non-empty body (a call that gets past its body check), successful or not,
\* the next read of all_channels issues a new request.
C4_ReadAfterMutationFetches ==
    (call.op \in ReadOps /\ call.after \in {"mutated", "dropped"})
        => (~call.hit /\ (pc = "loop" \/ attempts >= 1))

C4_Witness ==
    /\ call.op \in ReadOps
    /\ call.after = "dropped"
    /\ pc = "idle"
    /\ attempts >= 1
    /\ outcome.kind = "return"

\* C5: consecutive successful reads of all_channels with no mutating call
\* between them issue one request in total and all return the same list, the
\* empty list included.
C5_ReadsShareOneFetch ==
    /\ runReads >= 1 => (runFetches = 1 /\ runSame)
    /\ (pc = "idle" /\ call.op = "all_channels" /\ outcome.kind = "return")
           => outcome.value = ListValue(runList)

C5_Witness ==
    /\ pc = "idle"
    /\ call.op = "all_channels"
    /\ call.hit
    /\ runReads >= 2
    /\ runList = <<>>
    /\ outcome = Return(ListValue(<<>>))

\* C6: the directory cache is empty whenever an HTTP attempt of a mutating
\* verb is issued, so the cache never holds a list fetched before a mutating
\* attempt.
C6_CacheEmptyAtMutatingAttempt ==
    /\ (pc = "loop" /\ call.verb \in MutatingVerbs) => cache.kind # "list"
    /\ ~stale

C6_Witness ==
    /\ pc = "loop"
    /\ call.verb \in MutatingVerbs
    /\ call.hadCache
    /\ attempts >= 1
    /\ cache.kind = "none"

\* C7: ConnectionError is raised only when all retryCount attempts ended in a
\* transport failure, and its cause is the failure of the last attempt.
C7_ConnectionErrorOnlyAfterTransportFailures ==
    outcome.kind = "ConnectionError"
        => (Len(log) = retries /\ AllTransport /\ outcome.cause = Len(log))

\* C8: get_channel_with_max_rows returns (None, None) when no channel has
\* available_rows > 0, and otherwise the identifier and the row count of the
\* earliest channel of the directory whose available_rows is the maximum.
C8_MaxRowsIsFirstMaximum ==
    (pc = "idle" /\ call.op = "get_channel_with_max_rows" /\ outcome.kind = "return")
        => LET dir == cache.list
           IN  IF \A i \in DOMAIN dir : dir[i].available_rows = 0
               THEN outcome.value = NonePair
               ELSE \E i \in DOMAIN dir :
                        /\ \A j \in DOMAIN dir : dir[j].available_rows <= dir[i].available_rows
                        /\ \A j \in 1..(i - 1) : dir[j].available_rows < dir[i].available_rows
                        /\ outcome.value = PairValue(dir[i].sensor_id, dir[i].available_rows)

C8_Witness ==
    /\ pc = "idle"
    /\ call.op = "get_channel_with_max_rows"
    /\ cache.list = Directory(<<0, 3, 3, 1>>)
    /\ outcome = Return(PairValue(2, 3))

\* a union with two or more members other than None
UnionOfNonNull(ann) == ann.o = "Union" /\ Len(NonNoneArgs(ann)) >= 2

\* C9: a sample type that declares a field typed as a union of two non-null
\* types is rejected when the type is defined: such a type is never defined,
\* and no instance of it is ever constructed.
C9_UnionRejectedAtDefinition ==
    (\E i \in DOMAIN sampleFields : UnionOfNonNull(sampleFields[i]))
        => (sampleState # "defined" /\ instances = 0)

\* the primitive a class stands for: the class itself when it is one of the
\* seven, otherwise its nearest base class that is
RECURSIVE PrimitiveOf(_)
PrimitiveOf(c) ==
    IF c = "object" THEN ""
    ELSE IF \E i \in DOMAIN COL_TO_PY_TYPE : COL_TO_PY_TYPE[i][2] = c
         THEN (CHOOSE e \in {COL_TO_PY_TYPE[i] : i \in DOMAIN COL_TO_PY_TYPE} : e[2] = c)[1]
         ELSE PrimitiveOf(Base(c))

\* C10: each of the seven primitives, and each subclass of one, is classified
\* valid and labelled with the name of that primitive.
C10_PrimitiveLabelled ==
    (validRes # "none" /\ checkedAnn.o = "class" /\ PrimitiveOf(checkedAnn.c) # "")
        => (validRes = "True" /\ labelRes = PrimitiveOf(checkedAnn.c))

\* the service reports nothing: an empty body, the empty JSON results {} and
\* [], or a not-found status
ReportsNothing(e) == e.status = 404 \/ e.shape \in {"empty", "emptyobject", "emptylist"}

\* C11: get_channel(id) returns None, and raises nothing, whenever the answer
\* that ended its request reported nothing for the id: an empty body, an
\* empty JSON result, or a not-found status.
C11_GetChannelAbsentWhenNothing ==
    (pc = "idle" /\ call.op = "get_channel" /\ Len(log) >= 1 /\ ReportsNothing(log[Len(log)]))
        => outcome = Return(NoValue)

\* an absent or empty body
AbsentOrEmpty(body) == body \in {"None", "emptydict"}

\* C12: put and patch called with an absent or empty body raise ValueError at
\* once: no HTTP attempt is issued and no delay is performed.
C12_PutPatchWithoutBodyFailFast ==
    (call.op \in {"put", "patch"} /\ AbsentOrEmpty(call.body))
        => (pc = "idle" /\ outcome.kind = "ValueError" /\ attempts = 0 /\ delays = 0
            /\ log = <<>>)

C12_Witness ==
    /\ call.op = "patch"
    /\ call.body = "emptydict"
    /\ outcome.kind = "ValueError"
    /\ attempts = 0
    /\ cache.kind = "list"

\* a body that is neither None, nor a dict, nor a KroniclePayload
NeitherPayloadNorMap(body) == body \in {"str", "emptystr"}

\* C13: _request called with a body that is neither a payload nor a dict
\* raises TypeError before the retry loop: no HTTP attempt and no delay are
\* made, whatever the retry budget. (put and patch raise ValueError on ""
\* without calling _request.)
C13_BadBodyTypeFailsBeforeLoop ==
    (call.op \in VerbOps /\ NeitherPayloadNorMap(call.body)
         /\ ~(call.op \in {"put", "patch"} /\ call.body = "emptystr"))
        => (pc = "idle" /\ outcome.kind = "TypeError" /\ attempts = 0 /\ delays = 0
            /\ log = <<>>)

C13_Witness ==
    /\ call.op = "post"
    /\ call.body = "emptystr"
    /\ outcome.kind = "TypeError"
    /\ retries = MaxRetries
    /\ attempts = 0
    /\ delays = 0

\* _parse was handed a response whose content decoded as JSON
Decoded == parsed # NoParse /\ parsed.resp.status_code < 400
               /\ parsed.resp.body.t \in {"scalar", "dict", "list"}

\* a JSON object that validates as a payload, and the payload it gives
Validates(obj) == obj.k # "invalid"

\* C14 as stated: with strict true _parse returns one payload for a decoded
\* JSON object, a list of payloads of the same length for a decoded JSON
\* array, and raises ResponseError for every other decoded shape; with strict
\* false it returns the decoded structure unchanged.
C14_ParseByShape ==
    Decoded =>
        LET body == parsed.resp.body
            res == parsed.res
        IN  IF ~parsed.strict THEN res = Returned(RawValue(body))
            ELSE IF body.t = "dict" THEN res.exc = "none" /\ res.value.t = "payload"
            ELSE IF body.t = "list"
                 THEN res.exc = "none" /\ res.value.t = "list"
                          /\ Len(res.value.l) = Len(body.items)
            ELSE res = Raised("ResponseError")

\* C14 as amended: with strict true _parse returns one payload for a decoded
\* JSON object that validates as a payload, the list of the payloads of its
\* elements, in their order, for a decoded JSON array whose elements all
\* validate, and raises ResponseError for every other decoded value (an object
\* or an element that fails validation included); with strict false it returns
\* the decoded structure unchanged and unvalidated.
C14_ParseByValidShape ==
    Decoded =>
        LET body == parsed.resp.body
            res == parsed.res
        IN  IF ~parsed.strict THEN res = Returned(RawValue(body))
            ELSE IF body.t = "dict" /\ Validates(body.obj)
                 THEN res = Returned(PayloadValue(body.obj.ch))
            ELSE IF body.t = "list" /\ \A i \in DOMAIN body.items : Validates(body.items[i])
                 THEN res.exc = "none" /\ res.value.t = "list"
                          /\ Len(res.value.l) = Len(body.items)
                          /\ \A i \in DOMAIN body.items : res.value.l[i] = body.items[i].ch
            ELSE res = Raised("ResponseError")

C14_Witness ==
    /\ Decoded
    /\ parsed.strict
    /\ parsed.resp.body.t = "list"
    /\ Len(parsed.resp.body.items) = 2
    /\ parsed.resp.body.items[1].ch # parsed.resp.body.items[2].ch
    /\ parsed.res.exc = "none"
    /\ parsed.res.value.l[1] = parsed.resp.body.items[1].ch
    /\ parsed.res.value.l[2] = parsed.resp.body.items[2].ch

\* the fixed label set
FixedLabels == {"str", "int", "float", "bool", "datetime", "dict", "list"}

\* the key/value pairs of the sensorSchema given whose value is outside it
Offending(arg) ==
    IF ~arg.present THEN {}
    ELSE {<<k, arg.map[k]>> : k \in {c \in DOMAIN arg.map : arg.map[c] \notin FixedLabels}}

\* C15 as stated: payload construction fails if and only if some value of
\* sensorSchema is outside the fixed label set, the failure names every
\* offending key/value pair, and an absent sensorSchema is accepted.
C15_ConstructionFailsIffBadLabel ==
    built.done =>
        /\ (built.res.exc # "none") <=> (Offending(built.in.sensor_schema) # {})
        /\ built.res.exc # "none" => built.res.named = Offending(built.in.sensor_schema)

\* C15 as amended: payload construction fails on sensorSchema if and only if
\* some value of sensorSchema is outside the fixed label set, and that failure
\* names every offending key/value pair and no other; an absent sensorSchema
\* is accepted; apart from sensorSchema, construction fails only when another
\* entry of the input is malformed.
C15_SchemaFailureIffBadLabel ==
    built.done =>
        /\ built.res.named = Offending(built.in.sensor_schema)
        /\ (built.res.exc # "none")
               <=> (Offending(built.in.sensor_schema) # {} \/ built.in.sensor_id = "malformed")
        /\ (~built.in.sensor_schema.present /\ built.in.sensor_id # "malformed")
               => built.res.exc = "none"

C15_Witness ==
    /\ built.done
    /\ built.in.sensor_id = "uuid"
    /\ built.in.sensor_schema.present
    /\ built.in.sensor_schema.map = <<"datetime", "unknown_type">>
    /\ built.res.exc = "ValidationError"
    /\ built.res.named = {<<2, "unknown_type">>}

\* C16: for every constructed payload, available_rows equals
\* op_details["available_rows"] when op_details has that key, and 0 in every
\* other case (op_details absent or without the key).
C16_AvailableRowsFromOpDetails ==
    (built.done /\ built.res.exc = "none" /\ built.in.op_details.k # "null")
        => built.res.available_rows =
               IF built.in.op_details.k = "rows" THEN built.in.op_details.v ELSE 0

\* the fields to_row includes: those named, or by default the declared ones
Included ==
    IF rowed.include # <<>> THEN {rowed.include[i] : i \in DOMAIN rowed.include}
    ELSE {f \in DOMAIN rowed.kinds : rowed.kinds[f] # "computed"}

AbsentRequired == {f \in Included : rowed.values[f] = "None" /\ rowed.kinds[f] # "optional"}

\* C17: to_row omits an included field whose value is None when the field is
\* optional, raises ValueError naming the field when it is required, and
\* otherwise puts the key in the row: the keys of the row are exactly the
\* included fields whose value is not None.
C17_RowKeysArePresentFields ==
    rowed.done =>
        IF AbsentRequired # {}
        THEN rowed.res.exc = "ValueError" /\ rowed.res.field \in AbsentRequired
        ELSE rowed.res.exc = "none"
                 /\ rowed.res.keys = {f \in Included : rowed.values[f] = "value"}

\* a primitive or a record type: a class that is one of the seven primitive
\* classes or a subclass of one, or a pydantic model
ElementType(a) ==
    a.o = "class" /\ (PrimitiveOf(a.c) # "" \/ IsSubclass(a.c, "BaseModel"))

\* optional of T: a union of None and exactly one other type
OptionalOf(ann) ==
    ann.o = "Union" /\ (\E i \in DOMAIN ann.args : ann.args[i] = NoneAnn)
        /\ Len(NonNoneArgs(ann)) = 1

\* The classification the rules give: "primitive" for a primitive, the label
\* "str" for a record type, "list" for a sequence and "dict" for a string-keyed
\* map of a record type or primitive, that of T for optional of T, and
\* "invalid" for every other type.
RECURSIVE Classified(_)
Classified(ann) ==
    IF ann.o = "Union" THEN
        IF OptionalOf(ann) THEN Classified(NonNoneArgs(ann)[1]) ELSE "invalid"
    ELSE IF ann.o = "class" THEN
        IF PrimitiveOf(ann.c) # "" THEN "primitive"
        ELSE IF IsSubclass(ann.c, "BaseModel") THEN "str"
        ELSE "invalid"
    ELSE IF ann.o = "list" THEN
        IF Len(ann.args) = 1 /\ ElementType(ann.args[1]) THEN "list" ELSE "invalid"
    ELSE IF ann.o = "dict" THEN
        IF Len(ann.args) = 2 /\ ann.args[1] = Cls("str") /\ ElementType(ann.args[2])
        THEN "dict" ELSE "invalid"
    ELSE "invalid"

C19_DeleteMissingChannelRaisesOperationError ==
    (call.op = "delete_channel" /\ call.lookup # NoEntry /\ ReportsNothing(call.lookup))
        => (pc = "idle" /\ outcome.kind = "OperationError" /\ call.verb = "get"
            /\ (call.hadCache => CacheHit(cache)))

\* the directory cache set to empty
EmptyCache == [kind |-> "none", list |-> <<>>]

\* C20: every step of every operation leaves the base URL, the retry count
\* and the retry delay as they are; a step of a mutating verb changes nothing
\* of the connector but the directory cache, which it sets to empty; a step
\* of a non-mutating operation leaves the cache as it is, except a read of
\* all_channels that populates it.
C20_Frame ==
    [][/\ url' = url
       /\ retries' = retries
       /\ delay' = delay
       /\ call'.verb \in MutatingVerbs => (cache' = cache \/ cache' = EmptyCache)
       /\ (call'.verb \notin MutatingVerbs /\ call'.op \notin ReadOps) => cache' = cache
       /\ call'.op \in ReadOps
              => (cache' = cache \/ (cache.kind # "list" /\ cache'.kind = "list"))]_vars

C20_Witness ==
    /\ pc = "idle"
    /\ call.op = "delete_channel"
    /\ call.verb = "delete"
    /\ call.hadCache
    /\ cache = EmptyCache
    /\ outcome.kind = "HTTPError"
    /\ attempts = 1
    /\ url = "http://127.0.0.1:8000"
    /\ retries = MaxRetries
    /\ delay = 2

\* the channels of dir whose sensor_name equals name
Matching(dir, name) == {i \in DOMAIN dir : dir[i].sensor_name = name}

\* C21: get_channel_by_sensor_name(name) returns the earliest channel of the
\* directory whose sensor_name equals name, and returns None, raising nothing,
\* when no channel matches; it reads the cached directory and issues a request
\* only when the cache is empty.
C21_FirstChannelOfThatName ==
    (pc = "idle" /\ call.op = "get_channel_by_sensor_name") =>
        /\ outcome.kind = "return" =>
               /\ CacheHit(cache)
               /\ LET dir == cache.list
                      found == Matching(dir, call.arg)
                  IN  IF found = {} THEN outcome.value = NoValue
                      ELSE \E i \in found :
                               /\ \A j \in found : i <= j
                               /\ outcome.value = PayloadValue(dir[i])
        /\ call.hadCache => (attempts = 0 /\ log = <<>> /\ outcome.kind = "return")
        /\ ~call.hadCache => attempts >= 1

C21_Witness ==
    /\ pc = "idle"
    /\ call.op = "get_channel_by_sensor_name"
    /\ call.hadCache
    /\ attempts = 0
    /\ Len(cache.list) = 2
    /\ cache.list[1].sensor_name = call.arg
    /\ cache.list[2].sensor_name = call.arg
    /\ cache.list[1].sensor_id # cache.list[2].sensor_id
    /\ outcome = Return(PayloadValue(cache.list[1]))

\* a body that is a channel without sensor identifier ({} included), or no
\* body at all
NoSensorId(c) == c.id = NoneId /\ c.body \in {"dict", "payload", "emptydict", "None"}

\* C22: create_channel, upsert_channel, update_channel and
\* insert_rows_and_upsert_channel called with a body that has no sensor
\* identifier raise at once: no HTTP attempt is issued, and the directory
\* cache is not invalidated.
C22_MissingIdFailsBeforeRequest ==
    (call.op \in WriteOps /\ NoSensorId(call))
        => /\ pc = "idle"
           /\ outcome.kind \in {"ValueError", "ValidationError"}
           /\ attempts = 0
           /\ log = <<>>
           /\ call.hadCache => CacheHit(cache)

C22_Witness ==
    /\ call.op = "update_channel"
    /\ call.body = "payload"
    /\ call.id = NoneId
    /\ call.hadCache
    /\ cache.kind = "list"
    /\ outcome.kind = "ValueError"
    /\ attempts = 0

\* _parse decoded the body of the answer e: it is JSON, under a status below
\* 400
DecodedAnswer(e) == e.status \in 200..399 /\ e.shape \notin {"raised", "empty", "text", "none"}

\* C23: is_alive returns True only if the decoded body is an object whose
\* status is "alive", is_ready only if it is "ready"; for every other decoded
\* body (not an object, no status, another status) they return False.
C23_HealthIsStatusLiteral ==
    (call.op \in {"is_alive", "is_ready"} /\ DecodedAnswer(call.lookup))
        => outcome = Return(BoolValue(call.lookup.shape
                                          = (IF call.op = "is_alive" THEN "alive" ELSE "ready")))

C23_Witness ==
    /\ call.op = "is_ready"
    /\ call.lookup.status = 200
    /\ call.lookup.shape = "alive"
    /\ outcome = Return(BoolValue(FALSE))

\* the lengths of the list-valued entries of the columns viewed
ListLengths ==
    {viewed.columns.map[c].len :
        c \in {d \in DOMAIN viewed.columns.map : viewed.columns.map[d].list}}

\* C24: the data_frame view of a payload whose columns hold list-valued
\* entries of more than one length raises ValueError naming those lengths;
\* when the list-valued entries share one length no length error is raised.
C24_UnequalLengthsRejected ==
    (viewed.done /\ viewed.columns.k = "dict") =>
        IF \E m, n \in ListLengths : m # n
        THEN viewed.res.exc = "ValueError" /\ viewed.res.what = "lengths"
                 /\ viewed.res.lengths = ListLengths
        ELSE viewed.res.what # "lengths"

C24_Witness ==
    /\ viewed.done
    /\ viewed.columns.k = "dict"
    /\ DOMAIN viewed.columns.map = {"a", "b"}
    /\ viewed.columns.map["a"] = [list |-> TRUE, len |-> 2]
    /\ viewed.columns.map["b"] = [list |-> TRUE, len |-> 3]
    /\ viewed.res = FrameError("ValueError", "lengths", {2, 3})

\* the method has ended after its GET returned a channel
FetchedChannel(op) ==
    /\ pc = "idle"
    /\ call.op = op
    /\ Len(log) >= 1
    /\ log[Len(log)].exc = "none"
    /\ log[Len(log)].shape = "payload"

\* the channel in the answer
Got == call.answer.body.obj.ch

\* C25: get_rows_for_channel returns the rows of the channel fetched, and
\* get_cols_for_channel its columns, as the raw list or dict for return_type
\* "list" or "dict", as a tabular view for "df" (of the rows, when the channel
\* has rows; of the columns, as data_frame gives it) and as a string for
\* "str"; any other return_type raises ValueError.
C25_RowsAndColumnsInTheFormatAsked ==
    /\ FetchedChannel("get_rows_for_channel") =>
           CASE call.arg \in {"list", "dict"} ->
                    outcome = Return(IF Got.rows = "None" THEN NoValue
                                     ELSE [t |-> "rows", p |-> Got, l |-> <<>>,
                                           raw |-> NoBody])
             [] call.arg = "str" -> outcome.kind = "return" /\ outcome.value.t = "str(rows)"
             [] call.arg = "df" ->
                    Got.rows # "None"
                        => (outcome.kind = "return" /\ outcome.value.t = "DataFrame")
             [] OTHER -> outcome.kind = "ValueError"
    /\ FetchedChannel("get_cols_for_channel") =>
           CASE call.arg \in {"list", "dict"} ->
                    outcome = Return(IF Got.columns.k = "None" THEN NoValue
                                     ELSE [t |-> "columns", p |-> Got, l |-> <<>>,
                                           raw |-> NoBody])
             [] call.arg = "str" -> outcome.kind = "return" /\ outcome.value.t = "str(columns)"
             [] call.arg = "df" ->
                    Cardinality(Lengths(Got.columns.map)) <= 1
                        => outcome = Return(IF Got.columns.k = "None" THEN NoValue
                                            ELSE [t |-> "DataFrame", p |-> Got,
                                                  l |-> <<>>, raw |-> NoBody])
             [] OTHER -> outcome.kind = "ValueError"

StaleCache == CacheHit(cache) /\ cache.list # ServiceDirectory(service)

\* C27: one connector shared by two threads is unsafe: the cache comes to
\* hold a list older than the directory of the service, and it does so only
\* through a fetch of all_channels that ran while another thread was in a
\* mutating call; in one such interleaving the fetch starts before the
\* mutating call and stores its list after the invalidation of that call, and
\* a later read of all_channels returns this list without a request.
C27_StaleOnlyThroughRacingFetch == StaleCache => racedStore # "no"

C27_Witness ==
    /\ StaleCache
    /\ racedStore = "before"
    /\ \A t \in Threads : threads[t].pc = "idle"
    /\ \E t \in Threads :
           /\ threads[t].op = "all_channels"
           /\ ~threads[t].requested
           /\ threads[t].out = Return(ListValue(cache.list))
           /\ threads[t].at = service
    /\ \E u \in Threads : threads[u].op = "post" /\ threads[u].out.kind = "return"

\* a response that is valid for the caller: a status below 400 and a body
\* that is JSON and, with strict, an object or a list of objects that
\* validate as payloads
ValidAnswer(e, strict) ==
    /\ e.status \in 200..399
    /\ IF strict THEN e.shape \in {"payload", "error", "emptylist", "list"}
       ELSE e.shape \notin {"raised", "empty", "text"}

\* the parse of the response resp
ParseOf(resp, strict) ==
    IF ~strict THEN RawValue(resp.body)
    ELSE IF resp.body.t = "dict"
         THEN PayloadValue(IF resp.body.obj.k = "payload" THEN resp.body.obj.ch
                           ELSE EmptyPayload)
    ELSE ListValue([i \in DOMAIN resp.body.items |-> resp.body.items[i].ch])

\* C28: for every k from 1 to the retry budget, a request whose first k-1
\* attempts raise transport failures and whose k-th attempt receives a valid
\* response with a status below 400 returns the parse of that response after
\* exactly k attempts and k-1 delays, and raises nothing.
C28_SuccessAfterTransportFailures ==
    \A k \in DOMAIN log :
        (/\ call.op \in VerbOps
         /\ \A i \in 1..(k - 1) : log[i].exc = "Transport"
         /\ ValidAnswer(log[k], call.strict))
            => /\ k = Len(log)
               /\ k <= retries
               /\ pc = "idle"
               /\ attempts = k
               /\ delays = k - 1
               /\ call.answer.status_code = log[k].status
               /\ outcome = Return(ParseOf(call.answer, call.strict))

C28_Witness ==
    /\ pc = "idle"
    /\ call.op = "post"
    /\ retries = MaxRetries
    /\ Len(log) = MaxRetries
    /\ \A i \in 1..(Len(log) - 1) : log[i].exc = "Transport"
    /\ log[Len(log)].shape = "payload"
    /\ attempts = MaxRetries
    /\ delays = MaxRetries - 1
    /\ outcome.kind = "return"
    /\ outcome.value.t = "payload"

\* C29: clone_channel(id, body) issues exactly one POST request to
\* channels/{id}/clone per call, whether the body is given or absent.
C29_CloneIssuesOnePost ==
    (pc = "idle" /\ call.op = "clone_channel" /\ outcome.kind = "return")
        => call.requests = 1

\* the fetch of an all_channels read has failed: its request raised, or
\* returned something that is not a list
FetchFailed ==
    /\ pc = "idle"
    /\ call.op = "all_channels"
    /\ Len(log) >= 1
    /\ (log[Len(log)].exc # "none" \/ log[Len(log)].shape \notin {"list", "emptylist"})

\* C30: an all_channels read whose fetch fails raises ConnectionError,
\* HTTPError, ResponseError or, for a result that is not a list of payloads,
\* TypeError, and leaves the cache empty; an all_channels read that follows
\* issues a new request and returns nothing from the cache.
C30_FailedFetchLeavesCacheEmpty ==
    [][FetchFailed =>
          /\ outcome.kind \in {"ConnectionError", "HTTPError", "ResponseError", "TypeError"}
          /\ ~CacheHit(cache)
          /\ call'.op = "all_channels"
                => (pc' = "loop" /\ ~call'.hit /\ call'.requests = 1
                    /\ outcome' = NoOutcome)]_vars

C30_Witness ==
    /\ FetchFailed
    /\ log[Len(log)].shape = "payload"
    /\ outcome.kind = "TypeError"
    /\ cache.kind = "none"
    /\ call.requests = 1

\* a sample type whose fields and computed fields all have a valid type
ValidSampleType ==
    \A i \in DOMAIN schemed.computed : IsValid(schemed.computed[i]) = "True"

\* C31: every label get_sensor_schema returns, for the fields and the
\* computed fields of a valid sample type, is one of str, int, float, bool,
\* datetime, dict, list, and a payload constructed with that schema passes
\* the validation of sensor_schema.
C31_DerivedSchemaValidates ==
    (schemed.done /\ ValidSampleType)
        => /\ schemed.res.exc = "none"
           /\ Len(schemed.res.schema) = Len(schemed.fields) + Len(schemed.computed)
           /\ \A i \in DOMAIN schemed.res.schema :
                  schemed.res.schema[i]
                      \in {"str", "int", "float", "bool", "datetime", "dict", "list"}
           /\ schemed.payload.exc = "none"
           /\ schemed.payload.named = {}

C31_Witness ==
    /\ schemed.done
    /\ schemed.fields = <<Cls("IsoDateTime"), Gen("list", <<Cls("Model")>>)>>
    /\ schemed.computed = <<Cls("Model")>>
    /\ schemed.res = [exc |-> "none", schema |-> <<"datetime", "list", "str">>]
    /\ schemed.payload.exc = "none"

\* a delete_all_channels has gone through its loop and returned
SweepEnded == pc = "idle" /\ call.op = "delete_all_channels" /\ outcome = Return(NoValue)

\* C32: delete_all_channels calls delete_channel once for each identifier of
\* the directory as read at the start of the call, in the order of the
\* directory; an exception of one delete_channel is caught and the loop goes
\* on with the remaining identifiers; the invalidations of the cache by the
\* deletions do not change the list being iterated.
C32_SweepTriesEveryIdentifierOnce ==
    /\ (sweep.active \/ SweepEnded)
          => /\ sweep.ids = [i \in DOMAIN sweep.dir |-> sweep.dir[i].sensor_id]
             /\ sweep.tried = SubSeq(sweep.ids, 1, Len(sweep.tried))
             /\ sweep.caught <= Len(sweep.tried)
    /\ SweepEnded => Len(sweep.tried) = Len(sweep.dir)

C32_Witness ==
    /\ SweepEnded
    /\ Len(sweep.dir) = 2
    /\ sweep.tried = <<2, 1>>
    /\ sweep.caught = 1
    /\ sweep.dropped
    /\ ~CacheHit(cache)

\* instance m begins a mutating call in this step
MutatingStep(m) ==
    conns[m].pc = "idle" /\ conns'[m].pc = "loop" /\ conns'[m].op \in MutatingVerbs

\* instance n reads all_channels in this step
ReadStep(n) ==
    conns[n].pc = "idle" /\ conns'[n] # conns[n] /\ conns'[n].op = "all_channels"

\* C33: the directory cache is per instance: a mutating call on one connector
\* empties the cache of that connector and leaves every other connector as
\* it was, and a connector that holds a list returns it from all_channels
\* without a request.
C33_CachePerInstance ==
    [][/\ \A m \in Instances :
            MutatingStep(m)
                => /\ ~CacheHit(conns'[m].cache)
                   /\ \A n \in Instances \ {m} : conns'[n] = conns[n]
       /\ \A n \in Instances :
            (ReadStep(n) /\ CacheHit(conns[n].cache))
                => /\ conns'[n].pc = "idle"
                   /\ ~conns'[n].requested
                   /\ conns'[n].out = Return(ListValue(conns[n].cache.list))
                   /\ conns'[n].cache = conns[n].cache]_vars

C33_Witness ==
    /\ AllIdle
    /\ conns[2].op = "post"
    /\ conns[2].out.kind = "return"
    /\ ~CacheHit(conns[2].cache)
    /\ service = 1
    /\ conns[1].cache = Cached(<<>>)
    /\ conns[1].op = "all_channels"
    /\ ~conns[1].requested
    /\ conns[1].out = Return(ListValue(<<>>))
    /\ conns[1].at = 1

\* C34: every call of _request ends, provided each HTTP call returns or
\* fails: it makes at most _retries HTTP attempts and, once the retry loop
\* is entered, ends with a parsed result, HTTPError, ResponseError or
\* ConnectionError, and with no other exception.
C34_RequestTerminates ==
    /\ [](call.op \in VerbOps => (attempts <= retries /\ Len(log) = attempts))
    /\ []((pc = "idle" /\ call.op \in VerbOps /\ call.requests = 1)
            => outcome.kind \in {"return", "HTTPError", "ResponseError", "ConnectionError"})
    /\ (pc = "loop" ~> pc = "idle")

C34_Witness ==
    /\ pc = "idle"
    /\ call.op = "get"
    /\ retries = MaxRetries
    /\ attempts = retries
    /\ \E i \in DOMAIN log : log[i].exc = "Other"
    /\ \E i \in DOMAIN log : log[i].exc = "Transport"
    /\ outcome.kind = "ConnectionError"

====
